---- MODULE Spec2Model ----
(***************************************************************************)
(* Model of the transaction construction, swap orchestration and           *)
(* submission pipeline of cli-solanize (src/src/transaction.rs,            *)
(* src/src/jupiter.rs, src/src/wallet.rs, src/src/error.rs) and of the     *)
(* history reconstruction (src/src/transaction.rs, src/src/web.rs).        *)
(*                                                                         *)
(* One call of one entry point is executed at a time.  Every remote call   *)
(* (key store, node, aggregator) and every use of the signing capability   *)
(* is a step of its own and is appended to `log`, so that the order of the *)
(* calls of one execution can be stated as a state predicate.              *)
(*                                                                         *)
(* Human amounts (f64 in the source) are exact multiples of 1/Sub of a     *)
(* lamport: the value t stands for t / (Sub * 10^9) coins.  The f64        *)
(* arithmetic of the conversions between human amounts and base units is   *)
(* computed bit-exactly in a specification of its own, ConvSpec.           *)
(***************************************************************************)
EXTENDS Integers, Sequences, FiniteSets, TLC

VARIABLES op, pc, args, loc, log, res

vars == <<op, pc, args, loc, log, res>>

(***************************************************************************)
(* Bounds                                                                  *)
(***************************************************************************)
MaxLamports == 2
MaxAmt == 2
MaxHash == 2
MaxHops == 2
MaxSigs == 2
MaxRuns == 2
MaxUnits == 40
MaxTenths == 9

(***************************************************************************)
(* Amounts                                                                 *)
(***************************************************************************)
Sub == 2

Lamports == 0..MaxLamports

\* amounts a caller can pass: negative, zero, fractions of a lamport, and
\* values large enough to be non-zero at 6 decimals
Amounts == (-1..(MaxAmt * Sub)) \cup {k * (Sub * 1000) + 1 : k \in 1..MaxAmt}

Hashes == 1..MaxHash

\* wallet.rs:221 / wallet.rs:231   balance as f64 / LAMPORTS_PER_SOL as f64
FromLamports(n) == n * Sub

Min(a, b) == IF a < b THEN a ELSE b

Abs(n) == IF n < 0 THEN 0 - n ELSE n

Pow10(d) == IF d = 9 THEN 1 ELSE 1000

\* (amount * 10_f64.powi(decimals)) as u64 : truncates, saturates at 0
ToBaseUnits(amount, decimals) ==
    IF amount < 0 THEN 0 ELSE amount \div (Sub * Pow10(decimals))

\* transaction.rs:77   (amount * LAMPORTS_PER_SOL as f64) as u64
ToLamports(amount) == ToBaseUnits(amount, 9)

(***************************************************************************)
(* Addresses                                                               *)
(***************************************************************************)
WalletKey == "W1"
SystemProgram == "Sys"
SolMint == "So11"
UsdcMint == "EPjF"
OtherMint == "Mint9"

\* strings Pubkey::from_str accepts
WellFormed == {WalletKey, "K2", "K3", SystemProgram, SolMint, UsdcMint, OtherMint}

PubkeyFromStrOk(s) == s \in WellFormed

Recipients == {WalletKey, "K2", "bad!"}
Payers == {WalletKey, "K2"}
KeypairArgs == {"None", WalletKey, "K2"}

(***************************************************************************)
(* Errors (error.rs) and the foreign errors anyhow carries through `?`     *)
(***************************************************************************)
NoErr == [kind |-> "", reason |-> "", detail |-> "", current |-> 0, required |-> 0]

Err(kind, reason, detail) ==
    [kind |-> kind, reason |-> reason, detail |-> detail, current |-> 0, required |-> 0]

InvalidAddress(address) == Err("InvalidAddress", "", address)

InsufficientBalance(current, required) ==
    [kind |-> "InsufficientBalance", reason |-> "", detail |-> "",
     current |-> current, required |-> required]

TransactionFailed(reason, detail) == Err("TransactionFailed", reason, detail)

NetworkError(text) == Err("NetworkError", "", text)

WalletNotFound == Err("WalletNotFound", "", "")

\* errors of other crates propagated unchanged by `?`
Foreign(kind, detail) == Err(kind, "", detail)

(***************************************************************************)
(* Transactions and their wire form                                        *)
(***************************************************************************)
NoTx == [shape |-> "", keys |-> <<>>, nsig |-> 0, blockhash |-> 0,
         lamports |-> 0, sigs |-> <<>>]

\* a wire string: its text encoding, whether its bytes deserialize as a
\* legacy Transaction, whether they deserialize as a VersionedTransaction,
\* and the transaction they hold
NoWire == [enc |-> "", legacy |-> FALSE, versioned |-> FALSE, tx |-> NoTx]

\* Message::new(&[system_instruction::transfer(from, to, lamports)], Some(from))
\* payer first, then the writable recipient, then the read-only program
MessageNew(from, to, lamports) ==
    [shape |-> "Legacy",
     keys |-> IF to = from THEN <<from, SystemProgram>>
                           ELSE <<from, to, SystemProgram>>,
     nsig |-> 1, blockhash |-> 0, lamports |-> lamports, sigs |-> <<>>]

TransactionNew_Mutant(signer, message, recent_blockhash) ==
    [message EXCEPT !.sigs = <<signer>>]

\* Transaction::new(&[&keypair], message, recent_blockhash)
TransactionNew(signer, message, recent_blockhash) ==
    [message EXCEPT !.blockhash = recent_blockhash, !.sigs = <<signer>>]

\* Transaction::new_unsigned(message): one default signature per required signer
TransactionNewUnsigned(message) ==
    [message EXCEPT !.sigs = [i \in 1..message.nsig |-> ""]]

\* bincode::serialize + text encoding of a legacy Transaction
Serialize(tx, enc) ==
    [enc |-> enc, legacy |-> tx.shape = "Legacy", versioned |-> TRUE, tx |-> tx]

RequiredSigners_Mutant(tx) ==
    IF tx.shape = "V0" THEN tx.keys
    ELSE SubSeq(tx.keys, 1, IF tx.nsig < Len(tx.keys) THEN tx.nsig ELSE Len(tx.keys))

\* account_keys.iter().take(header.num_required_signatures): the same rule
\* for the Legacy and the V0 message
RequiredSigners(tx) ==
    SubSeq(tx.keys, 1, IF tx.nsig < Len(tx.keys) THEN tx.nsig ELSE Len(tx.keys))

Signed(tx) ==
    /\ Len(tx.sigs) = tx.nsig
    /\ \A i \in 1..Len(tx.sigs) : tx.sigs[i] # "" /\ tx.sigs[i] = tx.keys[i]

(***************************************************************************)
(* jupiter.rs: symbols, quote records, aggregator payloads                 *)
(***************************************************************************)
Symbols == {"SOL", "sol", "USDC", SolMint, OtherMint, "bad!"}

SwapAmounts == {-1, 1} \cup {k * (Sub * 1000) + 1 : k \in 1..MaxAmt}

\* str::to_uppercase on the strings of the model
ToUppercase(s) ==
    CASE s = "sol" -> "SOL"
      [] s = SolMint -> "SO11"
      [] s = OtherMint -> "MINT9"
      [] s = "bad!" -> "BAD!"
      [] OTHER -> s

GetTokenMint_Mutant(symbol) ==
    IF symbol = "SOL" THEN [ok |-> TRUE, mint |-> SolMint, err |-> NoErr]
    ELSE IF symbol = "USDC" THEN [ok |-> TRUE, mint |-> UsdcMint, err |-> NoErr]
    ELSE [ok |-> TRUE, mint |-> symbol, err |-> NoErr]

\* Result of get_token_mint: Ok(mint) or Err(InvalidAddress{"Unknown token: .."})
GetTokenMint(symbol) ==
    LET symbol_upper == ToUppercase(symbol) IN
    IF symbol_upper = "SOL" THEN [ok |-> TRUE, mint |-> SolMint, err |-> NoErr]
    ELSE IF symbol_upper = "USDC" THEN [ok |-> TRUE, mint |-> UsdcMint, err |-> NoErr]
    ELSE IF PubkeyFromStrOk(symbol) THEN [ok |-> TRUE, mint |-> symbol, err |-> NoErr]
    ELSE [ok |-> FALSE, mint |-> "",
          err |-> Err("InvalidAddress", "Unknown token", symbol)]

\* if symbol.to_uppercase() == "SOL" { 9 } else { 6 }
Decimals(symbol) == IF ToUppercase(symbol) = "SOL" THEN 9 ELSE 6

\* The quote object as the aggregator sends it (JSON).  platformFee is
\* "absent", "null" or "object"; contextSlot stands for the members of the
\* object that QuoteResponse does not declare.
NoQuoteJson == [inputMint |-> "", inAmount |-> 0, outputMint |-> "",
                outAmount |-> "", priceImpactPct |-> "", routePlan |-> 0,
                platformFee |-> "absent", contextSlot |-> "absent"]

\* struct QuoteResponse (jupiter.rs:12-34)
NoQuoteResponse == [input_mint |-> "", in_amount |-> 0, output_mint |-> "",
                    out_amount |-> "", price_impact_pct |-> "", route_plan |-> 0,
                    platform_fee |-> "None"]

\* serde Deserialize of QuoteResponse: undeclared members are ignored, a
\* missing or null Option member becomes None
QuoteFromJson(j) ==
    [input_mint |-> j.inputMint, in_amount |-> j.inAmount,
     output_mint |-> j.outputMint, out_amount |-> j.outAmount,
     price_impact_pct |-> j.priceImpactPct, route_plan |-> j.routePlan,
     platform_fee |-> IF j.platformFee = "object" THEN "Some" ELSE "None"]

\* serde Serialize of QuoteResponse inside SwapRequest: every declared member
\* is written, None as null
QuoteToJson(q) ==
    [inputMint |-> q.input_mint, inAmount |-> q.in_amount,
     outputMint |-> q.output_mint, outAmount |-> q.out_amount,
     priceImpactPct |-> q.price_impact_pct, routePlan |-> q.route_plan,
     platformFee |-> IF q.platform_fee = "Some" THEN "object" ELSE "null",
     contextSlot |-> "absent"]

\* quotes the aggregator may answer to a request: the plain one and
\* variations of one member at a time
QuoteAnswers(input_mint, output_mint, amount) ==
    LET base == [inputMint |-> input_mint, inAmount |-> amount,
                 outputMint |-> output_mint, outAmount |-> "1500000",
                 priceImpactPct |-> "0.12", routePlan |-> 1,
                 platformFee |-> "null", contextSlot |-> "absent"]
    IN  {[base EXCEPT !.routePlan = h] : h \in 1..MaxHops}
        \cup {[base EXCEPT !.outAmount = "abc"],
              [base EXCEPT !.priceImpactPct = "n/a"],
              [base EXCEPT !.outAmount = "1.5", !.priceImpactPct = "n/a"],
              [base EXCEPT !.platformFee = "absent"],
              [base EXCEPT !.platformFee = "object"],
              [base EXCEPT !.contextSlot = "present"]}

\* str::parse::<u64>
ParseU64(s) ==
    IF s = "1500000" THEN [ok |-> TRUE, val |-> 1500000]
    ELSE [ok |-> FALSE, val |-> 0]

ParseF64_Mutant(s) ==
    IF s \in {"0.12", "1.5", "1500000"} THEN [ok |-> TRUE, val |-> s]
    ELSE [ok |-> TRUE, val |-> "0"]

\* str::parse::<f64>; the value is kept as its decimal text
ParseF64(s) ==
    IF s \in {"0.12", "1.5", "1500000"} THEN [ok |-> TRUE, val |-> s]
    ELSE [ok |-> FALSE, val |-> ""]

NoDecoded == [enc |-> "", as |-> "", ok |-> FALSE, shape |-> ""]

\* transactions the aggregator may return for a user: V0 or legacy message,
\* base64 or base58 text, one or more required signers, or bytes that are no
\* transaction, or text that is no encoding
SwapTx(user, shape, nsig) ==
    [shape |-> shape, keys |-> <<user, "K3", "Pool">>, nsig |-> nsig,
     blockhash |-> 1, lamports |-> 0, sigs |-> [i \in 1..nsig |-> ""]]

\* a message whose header asks for more signatures than it has keys
SwapTxShort(user, shape, nsig) ==
    [shape |-> shape, keys |-> <<user>>, nsig |-> nsig,
     blockhash |-> 1, lamports |-> 0, sigs |-> [i \in 1..nsig |-> ""]]

SwapPayloads(user) ==
    {[enc |-> "base64", legacy |-> FALSE, versioned |-> TRUE,
      tx |-> SwapTx(user, "V0", n)] : n \in 0..MaxSigs}
    \cup {[enc |-> "base64", legacy |-> FALSE, versioned |-> TRUE,
           tx |-> SwapTxShort(user, "V0", MaxSigs)],
          [enc |-> "base64", legacy |-> TRUE, versioned |-> TRUE,
           tx |-> SwapTx(user, "Legacy", MaxSigs)]}
    \cup {[enc |-> e, legacy |-> TRUE, versioned |-> TRUE,
           tx |-> SwapTx(user, "Legacy", 1)] : e \in {"base64", "base58"}}
    \cup {[enc |-> "base58", legacy |-> FALSE, versioned |-> TRUE,
           tx |-> SwapTx(user, "V0", 1)],
          [enc |-> "base64", legacy |-> FALSE, versioned |-> FALSE, tx |-> NoTx],
          [enc |-> "none", legacy |-> FALSE, versioned |-> FALSE, tx |-> NoTx]}

(***************************************************************************)
(* Execution state                                                         *)
(***************************************************************************)
NoArgs == [to_address |-> "", amount |-> 0, keypair |-> "", payer |-> "",
           from_symbol |-> "", to_symbol |-> "", signed_tx |-> NoWire,
           limit |-> 0, before |-> 0, index |-> <<>>]

NoLoc == [kp |-> "", current_balance |-> 0, lamports |-> 0,
          input_mint |-> "", output_mint |-> "", amount_units |-> 0,
          quote |-> NoQuoteResponse, out_amount |-> 0, out_decimals |-> 0,
          price_impact |-> "", swap_transaction |-> NoWire,
          decoded |-> NoDecoded, tried |-> <<>>, tx |-> NoTx,
          signatures |-> <<>>, transactions |-> <<>>]

NoQuoteInfo == [expected_output |-> 0, out_decimals |-> 0, price_impact |-> "",
                route_steps |-> 0]

NoPkg == [wire |-> NoWire, signers |-> <<>>, blockhash |-> 0,
          quote_info |-> NoQuoteInfo, signature |-> "",
          records |-> <<>>, total_count |-> 0, has_more |-> FALSE,
          next_before |-> 0]

NoRes == [status |-> "none", err |-> NoErr, pkg |-> NoPkg]

Ok(pkg) == [status |-> "Ok", err |-> NoErr, pkg |-> pkg]

Fail(e) == [status |-> "Err", err |-> e, pkg |-> NoPkg]

\* one entry per external interaction of the running call
Entry(call, ok, addr, n) ==
    [call |-> call, ok |-> ok, addr |-> addr, n |-> n, a |-> "", b |-> "",
     q |-> NoQuoteJson, w |-> NoWire, text |-> "", sim |-> "None",
     before |-> 0, commitment |-> "", page |-> <<>>,
     detail |-> [ok |-> FALSE, meta |-> FALSE, pre |-> <<>>, post |-> <<>>, what |-> ""]]

Init ==
    /\ op = "idle"
    /\ pc = "idle"
    /\ args = NoArgs
    /\ loc = NoLoc
    /\ log = <<>>
    /\ res = NoRes

Return(r) ==
    /\ pc' = "done"
    /\ res' = r

Goto(l) ==
    /\ pc' = l
    /\ res' = res

At(o, l) == op = o /\ pc = l

\* the caller takes the result; the next call starts from a clean slate
Finish ==
    /\ pc = "done"
    /\ op' = "idle"
    /\ pc' = "idle"
    /\ args' = NoArgs
    /\ loc' = NoLoc
    /\ log' = <<>>
    /\ res' = NoRes

(***************************************************************************)
(* transaction.rs: create_transaction                                      *)
(***************************************************************************)
BalanceTooLow_Mutant(current_balance, amount) == current_balance <= amount

\* transaction.rs:69 / 119 / 245   if current_balance < amount
BalanceTooLow(current_balance, amount) == current_balance < amount

CallCreateTransaction ==
    /\ At("idle", "idle")
    /\ \E to \in Recipients, a \in Amounts :
         args' = [NoArgs EXCEPT !.to_address = to, !.amount = a]
    /\ op' = "create_transaction"
    /\ pc' = "load_keypair"
    /\ UNCHANGED <<loc, log, res>>

\* load_keypair(config), then Pubkey::from_str(to_address)
CT_LoadKeypair ==
    /\ At("create_transaction", "load_keypair")
    /\ \E ok \in BOOLEAN :
         /\ log' = Append(log, Entry("load_keypair", ok, "", 0))
         /\ IF ~ok THEN Return(Fail(WalletNotFound)) /\ loc' = loc
            ELSE IF ~PubkeyFromStrOk(args.to_address)
                 THEN Return(Fail(InvalidAddress(args.to_address)))
                      /\ loc' = [loc EXCEPT !.kp = WalletKey]
            ELSE Goto("get_balance") /\ loc' = [loc EXCEPT !.kp = WalletKey]
    /\ UNCHANGED <<op, args>>

\* wallet::get_balance(config): loads the keypair again, then asks the node
CT_BalanceKeypair ==
    /\ At("create_transaction", "get_balance")
    /\ \E ok \in BOOLEAN :
         /\ log' = Append(log, Entry("load_keypair", ok, "", 0))
         /\ IF ok THEN Goto("get_balance_rpc") ELSE Return(Fail(WalletNotFound))
    /\ UNCHANGED <<op, args, loc>>

CT_GetBalance ==
    /\ At("create_transaction", "get_balance_rpc")
    /\ \/ /\ log' = Append(log, Entry("get_balance", FALSE, WalletKey, 0))
          /\ Return(Fail(Foreign("ClientError", "get_balance")))
          /\ loc' = loc
       \/ \E n \in Lamports :
            LET current_balance == FromLamports(n) IN
            /\ log' = Append(log, Entry("get_balance", TRUE, WalletKey, n))
            /\ IF BalanceTooLow(current_balance, args.amount)
               THEN /\ Return(Fail(InsufficientBalance(current_balance, args.amount)))
                    /\ loc' = [loc EXCEPT !.current_balance = current_balance]
               ELSE /\ Goto("get_latest_blockhash")
                    /\ loc' = [loc EXCEPT !.current_balance = current_balance,
                                          !.lamports = ToLamports(args.amount)]
    /\ UNCHANGED <<op, args>>

\* get_latest_blockhash, Message::new, Transaction::new (signs), bs58
CT_Blockhash ==
    /\ At("create_transaction", "get_latest_blockhash")
    /\ \/ /\ log' = Append(log, Entry("get_latest_blockhash", FALSE, "", 0))
          /\ Return(Fail(Foreign("ClientError", "get_latest_blockhash")))
       \/ \E h \in Hashes :
            LET message == MessageNew(loc.kp, args.to_address, loc.lamports)
                transaction == TransactionNew(loc.kp, message, h)
            IN
            /\ log' = log \o <<Entry("get_latest_blockhash", TRUE, "", h),
                               Entry("sign", TRUE, loc.kp, 0)>>
            /\ Return(Ok([NoPkg EXCEPT !.wire = Serialize(transaction, "base58")]))
    /\ UNCHANGED <<op, args, loc>>

(***************************************************************************)
(* transaction.rs: create_transaction_with_keypair                         *)
(***************************************************************************)
CallCreateTransactionWithKeypair ==
    /\ At("idle", "idle")
    /\ \E to \in Recipients, a \in Amounts, k \in KeypairArgs :
         args' = [NoArgs EXCEPT !.to_address = to, !.amount = a, !.keypair = k]
    /\ op' = "create_transaction_with_keypair"
    /\ pc' = "load_keypair"
    /\ UNCHANGED <<loc, log, res>>

\* match keypair { Some(k) => k, None => load_keypair(config)? }, then
\* Pubkey::from_str(to_address)
CTK_Keypair ==
    /\ At("create_transaction_with_keypair", "load_keypair")
    /\ \E ok \in BOOLEAN :
         LET loaded == args.keypair = "None"
             kp == IF loaded THEN WalletKey ELSE args.keypair
         IN
         /\ loaded \/ ok
         /\ log' = IF loaded THEN Append(log, Entry("load_keypair", ok, "", 0))
                   ELSE log
         /\ IF loaded /\ ~ok THEN Return(Fail(WalletNotFound)) /\ loc' = loc
            ELSE IF ~PubkeyFromStrOk(args.to_address)
                 THEN Return(Fail(InvalidAddress(args.to_address)))
                      /\ loc' = [loc EXCEPT !.kp = kp]
            ELSE Goto("get_balance_rpc") /\ loc' = [loc EXCEPT !.kp = kp]
    /\ UNCHANGED <<op, args>>

\* wallet::get_balance_for_pubkey(config, &from_keypair.pubkey())
CTK_GetBalance ==
    /\ At("create_transaction_with_keypair", "get_balance_rpc")
    /\ \/ /\ log' = Append(log, Entry("get_balance", FALSE, loc.kp, 0))
          /\ Return(Fail(Foreign("ClientError", "get_balance")))
          /\ loc' = loc
       \/ \E n \in Lamports :
            LET current_balance == FromLamports(n) IN
            /\ log' = Append(log, Entry("get_balance", TRUE, loc.kp, n))
            /\ IF BalanceTooLow(current_balance, args.amount)
               THEN /\ Return(Fail(InsufficientBalance(current_balance, args.amount)))
                    /\ loc' = [loc EXCEPT !.current_balance = current_balance]
               ELSE /\ Goto("get_latest_blockhash")
                    /\ loc' = [loc EXCEPT !.current_balance = current_balance,
                                          !.lamports = ToLamports(args.amount)]
    /\ UNCHANGED <<op, args>>

CTK_Blockhash ==
    /\ At("create_transaction_with_keypair", "get_latest_blockhash")
    /\ \/ /\ log' = Append(log, Entry("get_latest_blockhash", FALSE, "", 0))
          /\ Return(Fail(Foreign("ClientError", "get_latest_blockhash")))
       \/ \E h \in Hashes :
            LET message == MessageNew(loc.kp, args.to_address, loc.lamports)
                transaction == TransactionNew(loc.kp, message, h)
            IN
            /\ log' = log \o <<Entry("get_latest_blockhash", TRUE, "", h),
                               Entry("sign", TRUE, loc.kp, 0)>>
            /\ Return(Ok([NoPkg EXCEPT !.wire = Serialize(transaction, "base58")]))
    /\ UNCHANGED <<op, args, loc>>

(***************************************************************************)
(* transaction.rs: prepare_sol_transfer                                    *)
(***************************************************************************)
BalanceAddress_Mutant(payer_pubkey) == WalletKey

\* wallet::get_balance_for_pubkey(config, payer_pubkey): the address queried
BalanceAddress(payer_pubkey) == payer_pubkey

\* vec![payer_pubkey.to_string()]
PayerSigners(payer_pubkey) == <<payer_pubkey>>

CallPrepareSolTransfer ==
    /\ At("idle", "idle")
    /\ \E to \in Recipients, a \in Amounts, p \in Payers :
         args' = [NoArgs EXCEPT !.to_address = to, !.amount = a, !.payer = p]
    /\ op' = "prepare_sol_transfer"
    /\ pc' = "parse"
    /\ UNCHANGED <<loc, log, res>>

PST_Parse ==
    /\ At("prepare_sol_transfer", "parse")
    /\ IF ~PubkeyFromStrOk(args.to_address)
       THEN Return(Fail(InvalidAddress(args.to_address)))
       ELSE Goto("get_balance_rpc")
    /\ UNCHANGED <<op, args, loc, log>>

PST_GetBalance ==
    /\ At("prepare_sol_transfer", "get_balance_rpc")
    /\ \/ /\ log' = Append(log, Entry("get_balance", FALSE, BalanceAddress(args.payer), 0))
          /\ Return(Fail(Foreign("ClientError", "get_balance")))
          /\ loc' = loc
       \/ \E n \in Lamports :
            LET current_balance == FromLamports(n) IN
            /\ log' = Append(log, Entry("get_balance", TRUE, BalanceAddress(args.payer), n))
            /\ IF BalanceTooLow(current_balance, args.amount)
               THEN /\ Return(Fail(InsufficientBalance(current_balance, args.amount)))
                    /\ loc' = [loc EXCEPT !.current_balance = current_balance]
               ELSE /\ Goto("get_latest_blockhash")
                    /\ loc' = [loc EXCEPT !.current_balance = current_balance,
                                          !.lamports = ToLamports(args.amount)]
    /\ UNCHANGED <<op, args>>

\* get_latest_blockhash, Message::new, Transaction::new_unsigned, base64
PST_Blockhash ==
    /\ At("prepare_sol_transfer", "get_latest_blockhash")
    /\ \/ /\ log' = Append(log, Entry("get_latest_blockhash", FALSE, "", 0))
          /\ Return(Fail(Foreign("ClientError", "get_latest_blockhash")))
       \/ \E h \in Hashes :
            LET message == MessageNew(args.payer, args.to_address, loc.lamports)
                unsigned == TransactionNewUnsigned(message)
                transaction == [unsigned EXCEPT !.blockhash = h]
            IN
            /\ log' = Append(log, Entry("get_latest_blockhash", TRUE, "", h))
            /\ Return(Ok([NoPkg EXCEPT !.wire = Serialize(transaction, "base64"),
                                        !.signers = PayerSigners(args.payer),
                                        !.blockhash = h]))
    /\ UNCHANGED <<op, args, loc>>

(***************************************************************************)
(* jupiter.rs: steps shared by the three swap entry points                 *)
(***************************************************************************)
SwapOps == {"prepare_swap_transaction", "swap_tokens", "swap_tokens_with_keypair"}

QuoteStatusError_Mutant(error_text) == InvalidAddress(error_text)

\* get_quote: the error for a non-success status
QuoteStatusError(error_text) == NetworkError(error_text)

\* get_quote: transport failure, non-success status, undecodable body, or a quote
GetQuoteOutcomes(input_mint, output_mint, amount) ==
    {[ok |-> FALSE, q |-> NoQuoteJson, text |-> "transport",
      err |-> Foreign("ReqwestError", "send")],
     [ok |-> FALSE, q |-> NoQuoteJson, text |-> "status",
      err |-> QuoteStatusError("quote refused")],
     [ok |-> FALSE, q |-> NoQuoteJson, text |-> "json",
      err |-> Foreign("ReqwestError", "decode")]}
    \cup {[ok |-> TRUE, q |-> j, text |-> "", err |-> NoErr] :
            j \in QuoteAnswers(input_mint, output_mint, amount)}

HasSimulationError_Mutant(simulation_error) == FALSE

\* if let Some(error) = &swap_response.simulation_error
HasSimulationError(simulation_error) == simulation_error # "None"

\* answers to the swap-build request: transport failure, non-success
\* status, undecodable body, or a SwapResponse with or without simulationError
SwapBuildAnswers(user) ==
    {[http |-> h, w |-> NoWire, simulation_error |-> "None"] :
        h \in {"transport", "status", "json"}}
    \cup {[http |-> "ok", w |-> w, simulation_error |-> sim] :
            w \in SwapPayloads(user), sim \in {"None", "custom program error"}}

\* Result of get_swap_transaction for an answer
GetSwapTransaction(r) ==
    IF r.http = "transport" THEN [ok |-> FALSE, err |-> Foreign("ReqwestError", "send")]
    ELSE IF r.http = "status" THEN [ok |-> FALSE, err |-> NetworkError("swap refused")]
    ELSE IF r.http = "json" THEN [ok |-> FALSE, err |-> Foreign("ReqwestError", "decode")]
    ELSE IF HasSimulationError(r.simulation_error)
         THEN [ok |-> FALSE,
               err |-> TransactionFailed("Simulation failed", r.simulation_error)]
    ELSE [ok |-> TRUE, err |-> NoErr]

RemoteFailed_Mutant(e) == Goto("get_quote")

\* `?` on get_quote(...).await and on get_swap_transaction(...).await
RemoteFailed(e) == Return(Fail(e))

\* get_token_mint twice, then the amount in base units
ResolveMints(l) ==
    LET im == GetTokenMint(args.from_symbol)
        om == GetTokenMint(args.to_symbol)
    IN  IF ~im.ok THEN Return(Fail(im.err)) /\ loc' = l
        ELSE IF ~om.ok THEN Return(Fail(om.err))
                            /\ loc' = [l EXCEPT !.input_mint = im.mint]
        ELSE /\ Goto("get_quote")
             /\ loc' = [l EXCEPT !.input_mint = im.mint,
                                   !.output_mint = om.mint,
                                   !.amount_units =
                                       ToBaseUnits(args.amount, Decimals(args.from_symbol))]

QuoteEntry(r) ==
    [Entry("quote", r.ok, "", loc.amount_units) EXCEPT
        !.a = loc.input_mint, !.b = loc.output_mint, !.q = r.q, !.text = r.text]

\* get_quote, then out_amount.parse::<u64>()? and price_impact_pct.parse::<f64>()?
QuoteStep(o) ==
    /\ At(o, "get_quote")
    /\ \E r \in GetQuoteOutcomes(loc.input_mint, loc.output_mint, loc.amount_units) :
         LET quote == QuoteFromJson(r.q)
             out == ParseU64(quote.out_amount)
             impact == ParseF64(quote.price_impact_pct)
         IN
         /\ log' = Append(log, QuoteEntry(r))
         /\ IF ~r.ok THEN RemoteFailed(r.err) /\ loc' = loc
            ELSE IF ~out.ok
                 THEN Return(Fail(Foreign("ParseIntError", quote.out_amount)))
                      /\ loc' = [loc EXCEPT !.quote = quote]
            ELSE IF ~impact.ok
                 THEN Return(Fail(Foreign("ParseFloatError", quote.price_impact_pct)))
                      /\ loc' = [loc EXCEPT !.quote = quote]
            ELSE /\ Goto("get_swap_transaction")
                 /\ loc' = [loc EXCEPT !.quote = quote,
                                       !.out_amount = out.val,
                                       !.out_decimals = Decimals(args.to_symbol),
                                       !.price_impact = impact.val]
    /\ UNCHANGED <<op, args>>

\* SwapRequest { quote_response: quote, user_public_key, .. } posted as JSON
SwapBuildEntry(r, user) ==
    [Entry("swap_build", GetSwapTransaction(r).ok, user, 0) EXCEPT
        !.q = QuoteToJson(loc.quote), !.w = r.w, !.text = r.http,
        !.sim = r.simulation_error]

\* base64::decode + bincode::deserialize::<VersionedTransaction>
DecodePrepareSwap(w) ==
    LET ok == w.enc = "base64" /\ w.versioned IN
    [enc |-> "base64", as |-> "VersionedTransaction", ok |-> ok,
     shape |-> IF ok THEN w.tx.shape ELSE ""]

\* bs58::decode + bincode::deserialize::<Transaction>
DecodeSwapTokens(w) ==
    LET ok == w.enc = "base58" /\ w.legacy IN
    [enc |-> "base58", as |-> "Transaction", ok |-> ok,
     shape |-> IF ok THEN w.tx.shape ELSE ""]

\* base64::decode + bincode::deserialize::<VersionedTransaction>
DecodeSwapTokensWithKeypair(w) ==
    LET ok == w.enc = "base64" /\ w.versioned IN
    [enc |-> "base64", as |-> "VersionedTransaction", ok |-> ok,
     shape |-> IF ok THEN w.tx.shape ELSE ""]

DecodeError(d, w) ==
    IF d.enc # w.enc THEN Foreign("DecodeError", d.enc)
    ELSE Foreign("BincodeError", d.as)

\* the signer set [kp] is accepted iff the message requires exactly kp
SignerAccepted(tx, kp) == tx.nsig = 1 /\ Len(tx.keys) >= 1 /\ tx.keys[1] = kp

SignWith(tx, kp) == [tx EXCEPT !.sigs = <<kp>>]

\* send_and_confirm_transaction: confirmed, rejected by the node, or timed out
SendOutcomes ==
    {[ok |-> TRUE, text |-> "sig1"],
     [ok |-> FALSE, text |-> "rejected"],
     [ok |-> FALSE, text |-> "timeout"]}

SendEntry(r, tx) ==
    [Entry("send_and_confirm", r.ok, "", 0) EXCEPT
        !.w = [enc |-> "", legacy |-> tx.shape = "Legacy", versioned |-> TRUE, tx |-> tx],
        !.text = r.text]

(***************************************************************************)
(* jupiter.rs: prepare_swap_transaction                                    *)
(***************************************************************************)
CallPrepareSwapTransaction ==
    /\ At("idle", "idle")
    /\ \E f \in Symbols, t \in Symbols, a \in SwapAmounts, p \in Payers :
         args' = [NoArgs EXCEPT !.from_symbol = f, !.to_symbol = t,
                                !.amount = a, !.payer = p]
    /\ op' = "prepare_swap_transaction"
    /\ pc' = "get_token_mint"
    /\ UNCHANGED <<loc, log, res>>

PS_Mints ==
    /\ At("prepare_swap_transaction", "get_token_mint")
    /\ ResolveMints(loc)
    /\ UNCHANGED <<op, args, log>>

PS_Quote == QuoteStep("prepare_swap_transaction")

\* get_swap_transaction, decode, extract the required signers
PS_Build ==
    /\ At("prepare_swap_transaction", "get_swap_transaction")
    /\ \E r \in SwapBuildAnswers(args.payer) :
         LET d == DecodePrepareSwap(r.w) IN
         /\ log' = Append(log, SwapBuildEntry(r, args.payer))
         /\ IF ~GetSwapTransaction(r).ok
            THEN RemoteFailed(GetSwapTransaction(r).err) /\ loc' = loc
            ELSE IF ~d.ok
                 THEN Return(Fail(DecodeError(d, r.w)))
                      /\ loc' = [loc EXCEPT !.swap_transaction = r.w, !.decoded = d]
            ELSE /\ Goto("get_latest_blockhash")
                 /\ loc' = [loc EXCEPT !.swap_transaction = r.w, !.decoded = d,
                                       !.tx = r.w.tx]
    /\ UNCHANGED <<op, args>>

\* get_latest_blockhash, QuoteInfo { .., route_steps: 1 }, the result tuple
PS_Blockhash ==
    /\ At("prepare_swap_transaction", "get_latest_blockhash")
    /\ \/ /\ log' = Append(log, Entry("get_latest_blockhash", FALSE, "", 0))
          /\ Return(Fail(Foreign("ClientError", "get_latest_blockhash")))
       \/ \E h \in Hashes :
            /\ log' = Append(log, Entry("get_latest_blockhash", TRUE, "", h))
            /\ Return(Ok([NoPkg EXCEPT
                          !.wire = loc.swap_transaction,
                          !.signers = RequiredSigners(loc.tx),
                          !.blockhash = h,
                          !.quote_info = [expected_output |-> loc.out_amount,
                                          out_decimals |-> loc.out_decimals,
                                          price_impact |-> loc.price_impact,
                                          route_steps |-> 1]]))
    /\ UNCHANGED <<op, args, loc>>

(***************************************************************************)
(* jupiter.rs: swap_tokens                                                 *)
(***************************************************************************)
CallSwapTokens ==
    /\ At("idle", "idle")
    /\ \E f \in Symbols, t \in Symbols, a \in SwapAmounts :
         args' = [NoArgs EXCEPT !.from_symbol = f, !.to_symbol = t, !.amount = a]
    /\ op' = "swap_tokens"
    /\ pc' = "load_keypair"
    /\ UNCHANGED <<loc, log, res>>

ST_Start ==
    /\ At("swap_tokens", "load_keypair")
    /\ \E ok \in BOOLEAN :
         /\ log' = Append(log, Entry("load_keypair", ok, "", 0))
         /\ IF ~ok THEN Return(Fail(WalletNotFound)) /\ loc' = loc
            ELSE ResolveMints([loc EXCEPT !.kp = WalletKey])
    /\ UNCHANGED <<op, args>>

ST_Quote == QuoteStep("swap_tokens")

\* get_swap_transaction, bs58 decode, deserialize Transaction, transaction.sign
ST_Build ==
    /\ At("swap_tokens", "get_swap_transaction")
    /\ \E r \in SwapBuildAnswers(loc.kp) :
         LET d == DecodeSwapTokens(r.w)
             built == Append(log, SwapBuildEntry(r, loc.kp))
         IN
         IF ~GetSwapTransaction(r).ok
         THEN RemoteFailed(GetSwapTransaction(r).err) /\ loc' = loc /\ log' = built
         ELSE IF ~d.ok
              THEN /\ Return(Fail(DecodeError(d, r.w)))
                   /\ loc' = [loc EXCEPT !.swap_transaction = r.w, !.decoded = d]
                   /\ log' = built
         ELSE /\ log' = Append(built, Entry("sign", SignerAccepted(r.w.tx, loc.kp), loc.kp, 0))
              /\ IF SignerAccepted(r.w.tx, loc.kp)
                 THEN /\ Goto("send")
                      /\ loc' = [loc EXCEPT !.swap_transaction = r.w, !.decoded = d,
                                            !.tx = SignWith(r.w.tx, loc.kp)]
                 ELSE \* Transaction::sign unwraps the signer error
                      /\ Return([NoRes EXCEPT !.status = "Panic"])
                      /\ loc' = [loc EXCEPT !.swap_transaction = r.w, !.decoded = d]
    /\ UNCHANGED <<op, args>>

ST_Send ==
    /\ At("swap_tokens", "send")
    /\ \E r \in SendOutcomes :
         /\ log' = Append(log, SendEntry(r, loc.tx))
         /\ IF r.ok THEN Return(Ok(NoPkg))
            ELSE Return(Fail(TransactionFailed("Swap failed", r.text)))
    /\ UNCHANGED <<op, args, loc>>

(***************************************************************************)
(* jupiter.rs: swap_tokens_with_keypair                                    *)
(***************************************************************************)
CallSwapTokensWithKeypair ==
    /\ At("idle", "idle")
    /\ \E f \in Symbols, t \in Symbols, a \in SwapAmounts, k \in KeypairArgs :
         args' = [NoArgs EXCEPT !.from_symbol = f, !.to_symbol = t,
                                !.amount = a, !.keypair = k]
    /\ op' = "swap_tokens_with_keypair"
    /\ pc' = "load_keypair"
    /\ UNCHANGED <<loc, log, res>>

SWK_Start ==
    /\ At("swap_tokens_with_keypair", "load_keypair")
    /\ \E ok \in BOOLEAN :
         LET loaded == args.keypair = "None"
             kp == IF loaded THEN WalletKey ELSE args.keypair
         IN
         /\ loaded \/ ok
         /\ log' = IF loaded THEN Append(log, Entry("load_keypair", ok, "", 0))
                   ELSE log
         /\ IF loaded /\ ~ok THEN Return(Fail(WalletNotFound)) /\ loc' = loc
            ELSE ResolveMints([loc EXCEPT !.kp = kp])
    /\ UNCHANGED <<op, args>>

SWK_Quote == QuoteStep("swap_tokens_with_keypair")

\* get_swap_transaction, base64 decode, deserialize VersionedTransaction,
\* VersionedTransaction::try_new(message, &[kp])
SWK_Build ==
    /\ At("swap_tokens_with_keypair", "get_swap_transaction")
    /\ \E r \in SwapBuildAnswers(loc.kp) :
         LET d == DecodeSwapTokensWithKeypair(r.w)
             built == Append(log, SwapBuildEntry(r, loc.kp))
         IN
         IF ~GetSwapTransaction(r).ok
         THEN RemoteFailed(GetSwapTransaction(r).err) /\ loc' = loc /\ log' = built
         ELSE IF ~d.ok
              THEN /\ Return(Fail(DecodeError(d, r.w)))
                   /\ loc' = [loc EXCEPT !.swap_transaction = r.w, !.decoded = d]
                   /\ log' = built
         ELSE /\ log' = Append(built, Entry("sign", SignerAccepted(r.w.tx, loc.kp), loc.kp, 0))
              /\ IF SignerAccepted(r.w.tx, loc.kp)
                 THEN /\ Goto("send")
                      /\ loc' = [loc EXCEPT !.swap_transaction = r.w, !.decoded = d,
                                            !.tx = SignWith(r.w.tx, loc.kp)]
                 ELSE /\ Return(Fail(Foreign("SignerError", "try_new")))
                      /\ loc' = [loc EXCEPT !.swap_transaction = r.w, !.decoded = d]
    /\ UNCHANGED <<op, args>>

SWK_Send ==
    /\ At("swap_tokens_with_keypair", "send")
    /\ \E r \in SendOutcomes :
         /\ log' = Append(log, SendEntry(r, loc.tx))
         /\ IF r.ok THEN Return(Ok([NoPkg EXCEPT !.signature = r.text]))
            ELSE Return(Fail(TransactionFailed("Swap failed", r.text)))
    /\ UNCHANGED <<op, args, loc>>

(***************************************************************************)
(* transaction.rs: submit_signed_transaction                               *)
(***************************************************************************)
\* payloads a caller may post: any text, bytes that deserialize as a legacy
\* Transaction, as a VersionedTransaction, as both, or as neither
SubmitPayloads ==
    {[enc |-> e, legacy |-> l, versioned |-> v,
      tx |-> IF l \/ v
             THEN SignWith(SwapTx("K2", IF l THEN "Legacy" ELSE "V0", 1), "K2")
             ELSE NoTx] :
        e \in {"base64", "base58"}, l \in BOOLEAN, v \in BOOLEAN}

SubmitDecode_Mutant(w) ==
    IF w.versioned
    THEN [tried |-> <<"VersionedTransaction">>, as |-> "VersionedTransaction", ok |-> TRUE]
    ELSE IF w.legacy
    THEN [tried |-> <<"VersionedTransaction", "Transaction">>, as |-> "Transaction", ok |-> TRUE]
    ELSE [tried |-> <<"VersionedTransaction", "Transaction">>, as |-> "", ok |-> FALSE]

\* if let Ok(..) = deserialize::<Transaction> .. else if let Ok(..) =
\* deserialize::<VersionedTransaction> .. else Err
SubmitDecode(w) ==
    IF w.legacy
    THEN [tried |-> <<"Transaction">>, as |-> "Transaction", ok |-> TRUE]
    ELSE IF w.versioned
    THEN [tried |-> <<"Transaction", "VersionedTransaction">>,
          as |-> "VersionedTransaction", ok |-> TRUE]
    ELSE [tried |-> <<"Transaction", "VersionedTransaction">>, as |-> "", ok |-> FALSE]

CallSubmitSignedTransaction ==
    /\ At("idle", "idle")
    /\ \E w \in SubmitPayloads : args' = [NoArgs EXCEPT !.signed_tx = w]
    /\ op' = "submit_signed_transaction"
    /\ pc' = "decode"
    /\ UNCHANGED <<loc, log, res>>

\* base64::decode, then the two deserialization attempts
SS_Decode ==
    /\ At("submit_signed_transaction", "decode")
    /\ LET w == args.signed_tx
           d == SubmitDecode(w)
       IN  IF w.enc # "base64"
           THEN Return(Fail(Foreign("DecodeError", "base64"))) /\ loc' = loc
           ELSE IF d.ok
           THEN /\ Goto("send")
                /\ loc' = [loc EXCEPT !.tried = d.tried, !.tx = w.tx,
                             !.decoded = [enc |-> "base64", as |-> d.as, ok |-> TRUE,
                                          shape |-> w.tx.shape]]
           ELSE /\ Return(Fail(TransactionFailed("Invalid transaction format", "")))
                /\ loc' = [loc EXCEPT !.tried = d.tried]
    /\ UNCHANGED <<op, args, log>>

SubmitResult_Mutant(r) == Ok([NoPkg EXCEPT !.signature = "sig1"])

\* let signature = client.send_and_confirm_transaction(..)?; Ok(signature)
SubmitResult(r) ==
    IF r.ok THEN Ok([NoPkg EXCEPT !.signature = r.text])
    ELSE Fail(Foreign("ClientError", r.text))

\* one client.send_and_confirm_transaction(..) call, whatever it answers
SS_Send ==
    /\ At("submit_signed_transaction", "send")
    /\ \E r \in SendOutcomes :
         /\ log' = Append(log, [SendEntry(r, loc.tx) EXCEPT !.a = loc.decoded.as])
         /\ Return(SubmitResult(r))
    /\ UNCHANGED <<op, args, loc>>

(***************************************************************************)
(* transaction.rs: send_transaction                                        *)
(***************************************************************************)
CallSendTransaction ==
    /\ At("idle", "idle")
    /\ \E w \in SubmitPayloads : args' = [NoArgs EXCEPT !.signed_tx = w]
    /\ op' = "send_transaction"
    /\ pc' = "decode"
    /\ UNCHANGED <<loc, log, res>>

\* bs58::decode(..).into_vec()?, bincode::deserialize::<Transaction>(..)?
SND_Decode ==
    /\ At("send_transaction", "decode")
    /\ LET w == args.signed_tx IN
       IF w.enc # "base58"
       THEN Return(Fail(Foreign("DecodeError", "bs58"))) /\ loc' = loc
       ELSE IF ~w.legacy
       THEN /\ Return(Fail(Foreign("DecodeError", "bincode")))
            /\ loc' = [loc EXCEPT !.tried = <<"Transaction">>]
       ELSE /\ Goto("send")
            /\ loc' = [loc EXCEPT !.tried = <<"Transaction">>, !.tx = w.tx,
                         !.decoded = [enc |-> "base58", as |-> "Transaction",
                                      ok |-> TRUE, shape |-> w.tx.shape]]
    /\ UNCHANGED <<op, args, log>>

\* match client.send_and_confirm_transaction(..): Ok goes on to the balance
\* read, Err(e) returns TransactionFailed { "Send failed: e" }
SND_Send ==
    /\ At("send_transaction", "send")
    /\ \E r \in SendOutcomes :
         /\ log' = Append(log, [SendEntry(r, loc.tx) EXCEPT !.a = loc.decoded.as])
         /\ IF r.ok THEN Goto("get_balance")
            ELSE Return(Fail(TransactionFailed("Send failed", r.text)))
    /\ UNCHANGED <<op, args, loc>>

\* wallet::get_balance(config).await?: loads the keypair, then asks the node
SND_BalanceKeypair ==
    /\ At("send_transaction", "get_balance")
    /\ \E ok \in BOOLEAN :
         /\ log' = Append(log, Entry("load_keypair", ok, "", 0))
         /\ IF ok THEN Goto("get_balance_rpc") ELSE Return(Fail(WalletNotFound))
    /\ UNCHANGED <<op, args, loc>>

SND_GetBalance ==
    /\ At("send_transaction", "get_balance_rpc")
    /\ \/ /\ log' = Append(log, Entry("get_balance", FALSE, WalletKey, 0))
          /\ Return(Fail(Foreign("ClientError", "get_balance")))
       \/ \E n \in Lamports :
            /\ log' = Append(log, Entry("get_balance", TRUE, WalletKey, n))
            /\ Return(Ok(NoPkg))
    /\ UNCHANGED <<op, args, loc>>

(***************************************************************************)
(* transaction.rs: the node's signature index and transaction details      *)
(*                                                                         *)
(* The signatures of an address are numbered 1, 2, .. from the newest; the *)
(* number stands for the signature text.  The index is kept as runs: a run *)
(* [first, count, ..] stands for the count consecutive signatures first,   *)
(* first + 1, .. that the node reports alike, and a run of records for the *)
(* records of as many consecutive loop iterations.                         *)
(***************************************************************************)
HistoryCap == 1000

DefaultLimit == 50

WebDefaultLimit == 50

PendingLimit == 20

TransferThreshold == 1000000

\* Option<usize> limit of a request: none, small, at the cap, above the cap
NoLimit == -1

Limits == {NoLimit, 1, 2, HistoryCap, HistoryCap + 1}

\* Option<String> before of a request: none, a text that is no signature,
\* the newest signature
NoSignature == 0

BadSignature == -1

Befores == {NoSignature, BadSignature, 1}

\* RpcConfirmedTransactionStatusWithSignature { err, confirmation_status,
\* block_time, slot }: -1 is an absent block time
SignatureProfiles ==
    {[err |-> "None", confirmation_status |-> "Finalized", block_time |-> 1700, slot |-> 10],
     [err |-> "InstructionError", confirmation_status |-> "Confirmed", block_time |-> 1701, slot |-> 11],
     [err |-> "None", confirmation_status |-> "None", block_time |-> -1, slot |-> 12],
     [err |-> "None", confirmation_status |-> "Processed", block_time |-> -1, slot |-> 13]}

SignatureRun(first, count, p) ==
    [first |-> first, count |-> count, err |-> p.err,
     confirmation_status |-> p.confirmation_status,
     block_time |-> p.block_time, slot |-> p.slot]

\* the n newest signatures, one run each
RECURSIVE RecentRuns(_)
RecentRuns(n) ==
    IF n = 0 THEN {<<>>}
    ELSE {Append(s, SignatureRun(n, 1, p)) : s \in RecentRuns(n - 1), p \in SignatureProfiles}

\* an old part of the index longer than any page
OldRun(first) ==
    [first |-> first, count |-> HistoryCap + 1, err |-> "None",
     confirmation_status |-> "Finalized", block_time |-> 1600, slot |-> 5]

\* signature indexes of a wallet: up to MaxRuns runs, the last of which may
\* be the old part
Indexes ==
    RecentRuns(MaxRuns)
    \cup UNION {RecentRuns(n) \cup {Append(s, OldRun(n + 1)) : s \in RecentRuns(n)} :
                   n \in 0..(MaxRuns - 1)}

RECURSIVE Total(_)
Total(runs) == IF runs = <<>> THEN 0 ELSE Head(runs).count + Total(Tail(runs))

\* the first n signatures of a list of runs
RECURSIVE TakeRuns(_, _)
TakeRuns(runs, n) ==
    IF n <= 0 \/ runs = <<>> THEN <<>>
    ELSE IF Head(runs).count >= n THEN <<[Head(runs) EXCEPT !.count = n]>>
    ELSE <<Head(runs)>> \o TakeRuns(Tail(runs), n - Head(runs).count)

\* the signatures older than signature k
RECURSIVE OlderThan(_, _)
OlderThan(runs, k) ==
    IF runs = <<>> THEN <<>>
    ELSE LET r == Head(runs)
             last == r.first + r.count - 1
         IN  IF last <= k THEN OlderThan(Tail(runs), k)
             ELSE IF r.first > k THEN runs
             ELSE <<[r EXCEPT !.first = k + 1, !.count = last - k]>> \o Tail(runs)

\* what the node's index holds at a commitment: at confirmed, what is in a
\* confirmed or finalized block; a transaction that was only processed is
\* visible at processed alone
AtCommitment(runs, commitment) ==
    IF commitment = "processed" THEN runs
    ELSE SelectSeq(runs, LAMBDA r : r.confirmation_status # "Processed")

\* getSignaturesForAddress: newest first, after `before`, at most `limit`
NodeSignatures(index, limit, before, commitment) ==
    TakeRuns(OlderThan(AtCommitment(index, commitment), before), limit)

\* get_transaction answers: an error, no meta, a fee-sized change, a change
\* of exactly the threshold, a transfer between two accounts, a swap that
\* spends native coin.  `what` is what the transaction did on the ledger
\* (its instructions); the analysis reads the balances only.
DetailAnswers ==
    {[ok |-> FALSE, meta |-> FALSE, pre |-> <<>>, post |-> <<>>, what |-> ""],
     [ok |-> TRUE, meta |-> FALSE, pre |-> <<>>, post |-> <<>>, what |-> "swap"],
     [ok |-> TRUE, meta |-> TRUE, pre |-> <<3000000>>, post |-> <<2995000>>,
      what |-> "token_transfer"],
     [ok |-> TRUE, meta |-> TRUE, pre |-> <<2000000>>, post |-> <<1000000>>,
      what |-> "transfer"],
     [ok |-> TRUE, meta |-> TRUE, pre |-> <<3000000, 0>>, post |-> <<994999, 2000001>>,
      what |-> "transfer"],
     [ok |-> TRUE, meta |-> TRUE, pre |-> <<3000000, 5000000>>, post |-> <<994999, 7000000>>,
      what |-> "swap"]}

NoAnalysis == [amount |-> -1, token_symbol |-> "None", transaction_type |-> "Unknown"]

AnalyzeTransactionDetails_Mutant(tx) ==
    LET n == Min(Len(tx.pre), Len(tx.post))
        hits == {i \in 1..n : Abs(tx.post[i] - tx.pre[i]) >= TransferThreshold}
    IN  IF tx.meta /\ hits # {}
        THEN LET i == CHOOSE j \in hits : \A k \in hits : j <= k
             IN  [amount |-> FromLamports(Abs(tx.post[i] - tx.pre[i])),
                  token_symbol |-> "SOL", transaction_type |-> "Transfer"]
        ELSE NoAnalysis

\* if let Some(meta): the first account whose |post - pre| > 1000000 makes
\* the record a Transfer of that difference in SOL
AnalyzeTransactionDetails(tx) ==
    LET n == Min(Len(tx.pre), Len(tx.post))
        hits == {i \in 1..n : Abs(tx.post[i] - tx.pre[i]) > TransferThreshold}
    IN  IF tx.meta /\ hits # {}
        THEN LET i == CHOOSE j \in hits : \A k \in hits : j <= k
             IN  [amount |-> FromLamports(Abs(tx.post[i] - tx.pre[i])),
                  token_symbol |-> "SOL", transaction_type |-> "Transfer"]
        ELSE NoAnalysis

DetailOrUnknown_Mutant(d) ==
    IF d.ok THEN AnalyzeTransactionDetails(d)
    ELSE [amount |-> 0, token_symbol |-> "SOL", transaction_type |-> "Transfer"]

\* match client.get_transaction(..) { Ok(tx) => analyze_transaction_details(&tx),
\* Err(_) => (None, None, TransactionType::Unknown) }
DetailOrUnknown(d) ==
    IF d.ok THEN AnalyzeTransactionDetails(d) ELSE NoAnalysis

(***************************************************************************)
(* transaction.rs: fetch_transaction_history, and its web handler          *)
(***************************************************************************)
HistoryOps == {"fetch_transaction_history", "get_transaction_history_web"}

EffectiveLimit_Mutant(limit) == IF limit = NoLimit THEN DefaultLimit ELSE limit

\* limit.unwrap_or(50).min(1000)
EffectiveLimit(limit) ==
    Min(IF limit = NoLimit THEN DefaultLimit ELSE limit, HistoryCap)

\* before.as_deref().map(|s| s.parse().ok()).flatten()
ParseBefore(before) == IF before = BadSignature THEN NoSignature ELSE before

HistoryStatus_Mutant(err) == "Success"

\* match sig_info.err { None => Success, Some(_) => Failed }
HistoryStatus(err) == IF err = "None" THEN "Success" ELSE "Failed"

\* match sig_info.confirmation_status: the depth reported, Finalized for None
HistoryConfirmationStatus(confirmation_status) ==
    IF confirmation_status = "None" THEN "Finalized" ELSE confirmation_status

HistoryRecord_Mutant(sig_info, a) ==
    [signature |-> sig_info.first, count |-> sig_info.count,
     status |-> HistoryStatus(sig_info.err),
     confirmation_status |-> HistoryConfirmationStatus(sig_info.confirmation_status),
     block_time |-> -1, slot |-> sig_info.slot, fee |-> "None",
     amount |-> a.amount, token_symbol |-> a.token_symbol,
     transaction_type |-> a.transaction_type, error |-> sig_info.err]

\* transactions.push(TransactionHistory { .. }) of fetch_transaction_history
HistoryRecord(sig_info, a) ==
    [signature |-> sig_info.first, count |-> sig_info.count,
     status |-> HistoryStatus(sig_info.err),
     confirmation_status |-> HistoryConfirmationStatus(sig_info.confirmation_status),
     block_time |-> sig_info.block_time, slot |-> sig_info.slot, fee |-> "None",
     amount |-> a.amount, token_symbol |-> a.token_symbol,
     transaction_type |-> a.transaction_type, error |-> sig_info.err]

\* transactions.last().unwrap().signature
LastSignature(transactions) ==
    transactions[Len(transactions)].signature + transactions[Len(transactions)].count - 1

\* TransactionHistoryResponse of get_transaction_history_web: has_more
\* compares the record count with request.limit.unwrap_or(50)
WebHistoryResponse(transactions, requested) ==
    LET total_count == Total(transactions)
        limit == IF requested = NoLimit THEN WebDefaultLimit ELSE requested
        has_more == total_count >= limit
    IN  [NoPkg EXCEPT !.records = transactions,
                      !.total_count = total_count,
                      !.has_more = has_more,
                      !.next_before = IF has_more /\ transactions # <<>>
                                      THEN LastSignature(transactions)
                                      ELSE NoSignature]

HistoryReturn(o, transactions) ==
    IF o = "get_transaction_history_web"
    THEN Return(Ok(WebHistoryResponse(transactions, args.limit)))
    ELSE Return(Ok([NoPkg EXCEPT !.records = transactions]))

SignaturesEntry(ok, limit, before, commitment, page) ==
    [Entry("get_signatures", ok, args.payer, limit) EXCEPT
        !.before = before, !.commitment = commitment, !.page = page]

\* client.get_signatures_for_address_with_config(pubkey, { before, until:
\* None, limit: Some(limit), commitment: confirmed })?
HistorySignatures(o) ==
    /\ At(o, "get_signatures")
    /\ LET limit == EffectiveLimit(args.limit)
           before == ParseBefore(args.before)
           signatures == NodeSignatures(args.index, limit, before, "confirmed")
       IN  \/ /\ log' = Append(log, SignaturesEntry(FALSE, limit, before, "confirmed", <<>>))
              /\ Return(Fail(Foreign("ClientError", "get_signatures")))
              /\ loc' = loc
           \/ /\ log' = Append(log, SignaturesEntry(TRUE, limit, before, "confirmed", signatures))
              /\ loc' = [loc EXCEPT !.signatures = signatures]
              /\ IF signatures = <<>> THEN HistoryReturn(o, <<>>)
                 ELSE Goto("get_transaction")
    /\ UNCHANGED <<op, args>>

\* one turn of the loop over the signatures: get_transaction, analysis or
\* the Unknown default, push
HistoryDetail(o) ==
    /\ At(o, "get_transaction")
    /\ \E d \in DetailAnswers :
         LET sig_info == Head(loc.signatures)
             transactions ==
                 Append(loc.transactions, HistoryRecord(sig_info, DetailOrUnknown(d)))
         IN  /\ log' = Append(log, [Entry("get_transaction", d.ok, "", sig_info.first)
                                         EXCEPT !.detail = d])
             /\ loc' = [loc EXCEPT !.signatures = Tail(loc.signatures),
                                   !.transactions = transactions]
             /\ IF Tail(loc.signatures) = <<>> THEN HistoryReturn(o, transactions)
                ELSE Goto("get_transaction")
    /\ UNCHANGED <<op, args>>

CallFetchTransactionHistory ==
    /\ At("idle", "idle")
    /\ \E l \in Limits, b \in Befores, x \in Indexes :
         args' = [NoArgs EXCEPT !.payer = "K2", !.limit = l, !.before = b, !.index = x]
    /\ op' = "fetch_transaction_history"
    /\ pc' = "get_signatures"
    /\ UNCHANGED <<loc, log, res>>

FH_Signatures == HistorySignatures("fetch_transaction_history")

FH_Detail == HistoryDetail("fetch_transaction_history")

CallGetTransactionHistoryWeb ==
    /\ At("idle", "idle")
    /\ \E a \in {"K2", "bad!"}, l \in Limits, b \in Befores, x \in Indexes :
         args' = [NoArgs EXCEPT !.payer = a, !.limit = l, !.before = b, !.index = x]
    /\ op' = "get_transaction_history_web"
    /\ pc' = "parse_public_key"
    /\ UNCHANGED <<loc, log, res>>

\* match parse_public_key(&request.pubkey)
HW_ParsePublicKey ==
    /\ At("get_transaction_history_web", "parse_public_key")
    /\ IF PubkeyFromStrOk(args.payer) THEN Goto("get_signatures")
       ELSE Return(Fail(Foreign("ParsePubkeyError", args.payer)))
    /\ UNCHANGED <<op, args, loc, log>>

HW_Signatures == HistorySignatures("get_transaction_history_web")

HW_Detail == HistoryDetail("get_transaction_history_web")

(***************************************************************************)
(* transaction.rs: fetch_pending_transactions                              *)
(***************************************************************************)
\* pending_transactions.push(TransactionHistory { status: Pending,
\* confirmation_status: Processed, .., error: None })
PendingRecord(sig_info, a) ==
    [signature |-> sig_info.first, count |-> sig_info.count,
     status |-> "Pending", confirmation_status |-> "Processed",
     block_time |-> sig_info.block_time, slot |-> sig_info.slot, fee |-> "None",
     amount |-> a.amount, token_symbol |-> a.token_symbol,
     transaction_type |-> a.transaction_type, error |-> "None"]

CallFetchPendingTransactions ==
    /\ At("idle", "idle")
    /\ \E x \in Indexes : args' = [NoArgs EXCEPT !.payer = "K2", !.index = x]
    /\ op' = "fetch_pending_transactions"
    /\ pc' = "get_signatures"
    /\ UNCHANGED <<loc, log, res>>

\* get_signatures_for_address_with_config(pubkey, { before: None, until:
\* None, limit: Some(20), commitment: confirmed })?
FP_Signatures ==
    /\ At("fetch_pending_transactions", "get_signatures")
    /\ LET signatures == NodeSignatures(args.index, PendingLimit, NoSignature, "confirmed")
       IN  \/ /\ log' = Append(log, SignaturesEntry(FALSE, PendingLimit, NoSignature,
                                                    "confirmed", <<>>))
              /\ Return(Fail(Foreign("ClientError", "get_signatures")))
              /\ loc' = loc
           \/ /\ log' = Append(log, SignaturesEntry(TRUE, PendingLimit, NoSignature,
                                                    "confirmed", signatures))
              /\ loc' = [loc EXCEPT !.signatures = signatures]
              /\ IF signatures = <<>> THEN Return(Ok(NoPkg)) ELSE Goto("loop")
    /\ UNCHANGED <<op, args>>

\* one turn of the loop: an entry reported as Processed is looked up and
\* pushed, any other entry is passed over
FP_Loop ==
    /\ At("fetch_pending_transactions", "loop")
    /\ \E d \in DetailAnswers :
         LET sig_info == Head(loc.signatures)
             pending == sig_info.confirmation_status = "Processed"
             pending_transactions ==
                 IF pending
                 THEN Append(loc.transactions, PendingRecord(sig_info, DetailOrUnknown(d)))
                 ELSE loc.transactions
         IN  /\ log' = IF pending
                       THEN Append(log, [Entry("get_transaction", d.ok, "", sig_info.first)
                                               EXCEPT !.detail = d])
                       ELSE log
             /\ loc' = [loc EXCEPT !.signatures = Tail(loc.signatures),
                                   !.transactions = pending_transactions]
             /\ IF Tail(loc.signatures) = <<>>
                THEN Return(Ok([NoPkg EXCEPT !.records = pending_transactions]))
                ELSE Goto("loop")
    /\ UNCHANGED <<op, args>>

(***************************************************************************)
(* f64 arithmetic of the conversions, computed exactly.                    *)
(*                                                                         *)
(* A natural number is a sequence of base-10000 digits, lowest first,      *)
(* <<>> being 0.  A non-negative f64 is [m, k], the value m / 2^k with     *)
(* m < 2^53.  Division and multiplication round to the nearest such value, *)
(* ties to the even m, as IEEE 754 binary64 does.                          *)
(***************************************************************************)
RECURSIVE BigFromInt(_)
BigFromInt(n) == IF n = 0 THEN <<>> ELSE <<n % 10000>> \o BigFromInt(n \div 10000)

RECURSIVE BigMulCarry(_, _, _)
BigMulCarry(b, k, carry) ==
    IF b = <<>> THEN BigFromInt(carry)
    ELSE LET v == Head(b) * k + carry
         IN  <<v % 10000>> \o BigMulCarry(Tail(b), k, v \div 10000)

\* b * k for 0 < k <= 100000
BigMulSmall(b, k) == BigMulCarry(b, k, 0)

\* b + c for a small c
BigAddSmall(b, c) == BigMulCarry(b, 1, c)

\* quotient and remainder of b by k, 0 < k <= 100000
RECURSIVE BigDivRem(_, _)
BigDivRem(b, k) ==
    IF b = <<>> THEN [q |-> <<>>, r |-> 0]
    ELSE LET hi == BigDivRem(Tail(b), k)
             v == hi.r * 10000 + Head(b)
         IN  [q |-> IF hi.q = <<>> /\ v \div k = 0 THEN <<>> ELSE <<v \div k>> \o hi.q,
              r |-> v % k]

BigLess(a, b) ==
    IF Len(a) # Len(b) THEN Len(a) < Len(b)
    ELSE \E i \in 1..Len(a) :
            a[i] < b[i] /\ \A j \in (i + 1)..Len(a) : a[j] = b[j]

BigOdd(b) == b # <<>> /\ Head(b) % 2 = 1

RECURSIVE BigShiftLeft(_, _)
BigShiftLeft(b, k) ==
    IF k <= 0 THEN b
    ELSE IF k >= 16 THEN BigShiftLeft(BigMulSmall(b, 65536), k - 16)
    ELSE BigShiftLeft(BigMulSmall(b, 2), k - 1)

RECURSIVE BigShiftRight(_, _)
BigShiftRight(b, k) ==
    IF k <= 0 THEN b
    ELSE IF k >= 16 THEN BigShiftRight(BigDivRem(b, 65536).q, k - 16)
    ELSE BigShiftRight(BigDivRem(b, 2).q, k - 1)

Two52 == BigShiftLeft(<<1>>, 52)

Two53 == BigShiftLeft(<<1>>, 53)

Two54 == BigShiftLeft(<<1>>, 54)

\* 10^d as a product of factors of at most 100000
PowerFactors(d) ==
    CASE d = 0 -> <<>>
      [] d = 1 -> <<10>>
      [] d = 6 -> <<1000, 1000>>
      [] d = 9 -> <<10000, 100000>>

RECURSIVE BigMulFactors(_, _)
BigMulFactors(b, fs) ==
    IF fs = <<>> \/ b = <<>> THEN b
    ELSE BigMulFactors(BigMulSmall(b, Head(fs)), Tail(fs))

\* floor(b / product of fs), and whether the division left no remainder
RECURSIVE BigDivFactors(_, _)
BigDivFactors(b, fs) ==
    IF fs = <<>> THEN [q |-> b, exact |-> TRUE]
    ELSE LET d1 == BigDivRem(b, Head(fs))
             rest == BigDivFactors(d1.q, Tail(fs))
         IN  [q |-> rest.q, exact |-> rest.exact /\ d1.r = 0]

F64Zero == [m |-> <<>>, k |-> 0]

\* the quotient of x by the product of fs, scaled by 2^k until it has 53 bits
RECURSIVE ScaleUp(_, _, _)
ScaleUp(x, fs, k) ==
    IF ~BigLess(BigDivFactors(x, fs).q, Two52) THEN [x |-> x, k |-> k]
    ELSE IF BigLess(BigDivFactors(BigMulSmall(x, 65536), fs).q, Two52)
    THEN ScaleUp(BigMulSmall(x, 65536), fs, k + 16)
    ELSE ScaleUp(BigMulSmall(x, 2), fs, k + 1)

\* round to nearest, ties to even: q2 is twice the truncated significand
\* with the first discarded bit as its lowest bit
RoundNearestEven(q2, exact) ==
    LET h == BigDivRem(q2, 2)
    IN  IF h.r = 1 /\ (~exact \/ BigOdd(h.q)) THEN BigAddSmall(h.q, 1) ELSE h.q

\* num as f64 / 10^d as f64, for num < 2^52: the correctly rounded quotient
F64Div(num, d) ==
    IF num = <<>> THEN F64Zero
    ELSE LET fs == PowerFactors(d)
             s == ScaleUp(num, fs, 0)
             q2 == BigDivFactors(BigMulSmall(s.x, 2), fs)
         IN  [m |-> RoundNearestEven(q2.q, q2.exact), k |-> s.k]

\* halves m until the rounded significand fits 53 bits
RECURSIVE RoundShift(_, _, _)
RoundShift(m, exact, s) ==
    LET h == BigDivRem(m, 2)
        c == BigDivRem(m, 65536)
    IN  IF BigLess(h.q, Two53)
        THEN [m |-> RoundNearestEven(m, exact), s |-> s + 1]
        ELSE IF ~BigLess(c.q, Two54)
        THEN RoundShift(c.q, exact /\ c.r = 0, s + 16)
        ELSE RoundShift(h.q, exact /\ h.r = 0, s + 1)

\* a * 10^d as f64: the correctly rounded product
F64Mul(a, d) ==
    LET p == BigMulFactors(a.m, PowerFactors(d))
    IN  IF BigLess(p, Two53) THEN [m |-> p, k |-> a.k]
        ELSE LET r == RoundShift(p, TRUE, 0) IN [m |-> r.m, k |-> a.k - r.s]

\* `as u64` of a non-negative f64: the integer part
F64AsU64(a) ==
    IF a.k >= 0 THEN BigShiftRight(a.m, a.k) ELSE BigShiftLeft(a.m, 0 - a.k)

(***************************************************************************)
(* The conversions between base units and human amounts, in f64            *)
(* (ConvSpec): loc is the human amount, res the base units computed.       *)
(***************************************************************************)
DecimalsUsed == {9, 6}

NoConvArgs == [from |-> "", units |-> 0, tenths |-> 0, decimals |-> 0]

\* balance as f64 / LAMPORTS_PER_SOL as f64, out_amount as f64 / 10_f64.powi(d)
FromBaseUnitsF64(n, d) == F64Div(BigFromInt(n), d)

\* (amount * LAMPORTS_PER_SOL as f64) as u64, (amount * 10_f64.powi(d)) as u64
ToBaseUnitsF64(amount, d) == F64AsU64(F64Mul(amount, d))

ConvInit ==
    /\ op = "idle"
    /\ pc = "idle"
    /\ args = NoConvArgs
    /\ loc = F64Zero
    /\ log = <<>>
    /\ res = <<>>

\* a balance or an output amount of n base units reported as a human amount
ConvFromBaseUnits ==
    /\ pc = "idle"
    /\ \E n \in 0..MaxUnits, d \in DecimalsUsed :
         /\ args' = [from |-> "base_units", units |-> n, tenths |-> 0, decimals |-> d]
         /\ loc' = FromBaseUnitsF64(n, d)
    /\ op' = "from_base_units"
    /\ pc' = "amount"
    /\ UNCHANGED <<log, res>>

\* an amount the caller typed with one decimal digit: the nearest f64
ConvAmountInput ==
    /\ pc = "idle"
    /\ \E p \in 0..MaxTenths, d \in DecimalsUsed :
         /\ args' = [from |-> "input", units |-> 0, tenths |-> p, decimals |-> d]
         /\ loc' = F64Div(BigFromInt(p), 1)
    /\ op' = "amount_input"
    /\ pc' = "amount"
    /\ UNCHANGED <<log, res>>

\* the builders' conversion of the amount to base units
ConvToBaseUnits ==
    /\ pc = "amount"
    /\ res' = ToBaseUnitsF64(loc, args.decimals)
    /\ pc' = "done"
    /\ UNCHANGED <<op, args, loc, log>>

ConvFinish ==
    /\ pc = "done"
    /\ op' = "idle"
    /\ pc' = "idle"
    /\ args' = NoConvArgs
    /\ loc' = F64Zero
    /\ res' = <<>>
    /\ log' = log

ConvNext ==
    \/ ConvFromBaseUnits
    \/ ConvAmountInput
    \/ ConvToBaseUnits
    \/ ConvFinish

ConvSpec == ConvInit /\ [][ConvNext]_vars

(***************************************************************************)
(* Properties                                                              *)
(***************************************************************************)
Done(o) == op = o /\ pc = "done"

AllOk == \A i \in 1..Len(log) : log[i].ok

Calls(c) == {i \in 1..Len(log) : log[i].call = c}

SignedBuildDone ==
    Done("create_transaction") \/ Done("create_transaction_with_keypair")

\* C1: with a well-formed recipient, a readable key store and a reachable
\* node, the signed transfer build queries the signer's balance, fails with
\* InsufficientBalance{current = queried balance, required = amount} exactly
\* when that balance is below the amount, and otherwise returns a package
\* signed by the signer.
C1_InsufficientBalanceExactly ==
    (SignedBuildDone /\ PubkeyFromStrOk(args.to_address) /\ AllOk) =>
        \E i \in Calls("get_balance") :
            /\ log[i].addr = loc.kp
            /\ IF log[i].n * Sub < args.amount
               THEN /\ res.status = "Err"
                    /\ res.err.kind = "InsufficientBalance"
                    /\ res.err.current = log[i].n * Sub
                    /\ res.err.required = args.amount
               ELSE /\ res.status = "Ok"
                    /\ res.pkg.wire.tx.sigs = <<loc.kp>>
                    /\ Signed(res.pkg.wire.tx)

C1_Witness ==
    /\ Done("create_transaction")
    /\ AllOk
    /\ res.err.kind = "InsufficientBalance"
    /\ res.err.current = Sub
    /\ res.err.required = Sub + 1

\* C2: the unsigned transfer build queries the balance of the payer address
\* only, never loads a keypair and never signs; a returned package carries
\* placeholder signatures only and lists exactly the payer as required
\* signer, which is the signer prefix of the header of the message built.
C2_UnsignedTransfer ==
    Done("prepare_sol_transfer") =>
        /\ \A i \in Calls("get_balance") : log[i].addr = args.payer
        /\ Calls("sign") = {}
        /\ Calls("load_keypair") = {}
        /\ res.err.kind = "InsufficientBalance" =>
             \E i \in Calls("get_balance") :
                 /\ log[i].n * Sub < args.amount
                 /\ res.err.current = log[i].n * Sub
        /\ res.status = "Ok" =>
             /\ \E i \in Calls("get_balance") : log[i].n * Sub >= args.amount
             /\ \A k \in 1..Len(res.pkg.wire.tx.sigs) : res.pkg.wire.tx.sigs[k] = ""
             /\ ~Signed(res.pkg.wire.tx)
             /\ res.pkg.signers = <<args.payer>>
             /\ res.pkg.signers = RequiredSigners(res.pkg.wire.tx)

C2_Witness ==
    /\ Done("prepare_sol_transfer")
    /\ res.status = "Ok"
    /\ args.payer # WalletKey
    /\ args.amount > 0

BuildAndSwapOps ==
    {"create_transaction", "create_transaction_with_keypair",
     "prepare_sol_transfer"} \cup SwapOps

\* UnknownAsset is reported by the code as InvalidAddress{"Unknown token: .."}
ValidationError(e) == e.kind \in {"UnknownAsset", "InvalidAddress", "InsufficientBalance"}

NetworkWrites ==
    Calls("send_and_confirm") \cup Calls("quote") \cup Calls("swap_build")

\* C3: a transfer build, swap or prepare_swap that ended with a validation
\* error (unknown asset, invalid address, insufficient balance) has issued
\* no send_and_confirm, no quote request and no swap-build request.
C3_ValidationBeforeWrites ==
    (op \in BuildAndSwapOps /\ pc = "done" /\ res.status = "Err"
        /\ ValidationError(res.err)) => NetworkWrites = {}

C3_Witness ==
    /\ Done("swap_tokens_with_keypair")
    /\ res.err.kind = "InvalidAddress"
    /\ res.err.reason = "Unknown token"
    /\ res.err.detail = args.to_symbol
    /\ loc.input_mint # ""

\* C4: when the swap-build answer carries a simulation error, swap fails
\* with the simulation rejection (TransactionFailed{"Simulation failed: .."}
\* with the aggregator's text) and neither signs nor submits.
C4_SimulationRejected ==
    ((Done("swap_tokens") \/ Done("swap_tokens_with_keypair"))
        /\ \E i \in Calls("swap_build") : log[i].text = "ok" /\ log[i].sim # "None")
    => /\ res.status = "Err"
       /\ res.err.kind = "TransactionFailed"
       /\ res.err.reason = "Simulation failed"
       /\ \E i \in Calls("swap_build") : res.err.detail = log[i].sim
       /\ Calls("sign") = {}
       /\ Calls("send_and_confirm") = {}

C4_Witness ==
    /\ Done("swap_tokens")
    /\ \E q \in Calls("quote") : log[q].ok
    /\ \E i \in Calls("swap_build") : log[i].sim = "custom program error"

\* C5: in a swap or prepare_swap execution there is at most one quote
\* request and at most one swap-build request, the build request follows a
\* successful quote, and a failed request is the last thing the execution
\* does before it returns the failure.
C5_NoRetry ==
    op \in SwapOps =>
        /\ Cardinality(Calls("quote")) <= 1
        /\ Cardinality(Calls("swap_build")) <= 1
        /\ \A b \in Calls("swap_build") :
              \E q \in Calls("quote") : q < b /\ log[q].ok
        /\ \A i \in Calls("quote") \cup Calls("swap_build") :
              ~log[i].ok => /\ pc = "done"
                            /\ res.status = "Err"
                            /\ i = Len(log)

C5_Witness ==
    /\ Done("prepare_swap_transaction")
    /\ \E b \in Calls("swap_build") : ~log[b].ok /\ log[b].text = "status"

\* the aggregator answered as requested: base64 text of a versioned
\* transaction that requires the user's signature only
AnsweredAsRequested(w, user) ==
    /\ w.enc = "base64" /\ w.versioned
    /\ w.tx.nsig = 1 /\ Len(w.tx.keys) >= 1 /\ w.tx.keys[1] = user

\* C6: the swap entry points issue the requests prepare_swap issues for the
\* same inputs and interpret the transaction the aggregator returned as
\* prepare_swap does (same text encoding, same transaction type, same
\* outcome and message shape).
C6_SameSequence ==
    (op \in {"swap_tokens", "swap_tokens_with_keypair"}
        /\ loc.decoded.enc # ""
        /\ AnsweredAsRequested(loc.swap_transaction, loc.kp)) =>
        /\ \A q \in Calls("quote") :
              /\ log[q].a = GetTokenMint(args.from_symbol).mint
              /\ log[q].b = GetTokenMint(args.to_symbol).mint
              /\ log[q].n = ToBaseUnits(args.amount, Decimals(args.from_symbol))
        /\ \A b \in Calls("swap_build") : log[b].addr = loc.kp
        /\ loc.decoded = DecodePrepareSwap(loc.swap_transaction)

\* C7: the quote posted in the swap-build request is the quote object the
\* aggregator answered to the quote request, member for member.
C7_QuoteReusedVerbatim ==
    \A b \in Calls("swap_build") :
        \E q \in Calls("quote") : q < b /\ log[b].q = log[q].q

\* C8: a quote whose output amount or price impact is not a number makes
\* swap and prepare_swap fail with the parse error, and no swap-build
\* request and no submission follows.
C8_ParseFailureIsHard ==
    (op \in SwapOps
        /\ \E i \in Calls("quote") :
              /\ log[i].ok
              /\ \/ log[i].q.outAmount \in {"abc", "1.5"}
                 \/ log[i].q.priceImpactPct = "n/a")
    => /\ pc = "done"
       /\ res.status = "Err"
       /\ res.err.kind \in {"ParseIntError", "ParseFloatError"}
       /\ Calls("swap_build") = {}
       /\ Calls("send_and_confirm") = {}

C8_Witness ==
    /\ Done("prepare_swap_transaction")
    /\ \E i \in Calls("quote") :
          log[i].ok /\ log[i].q.outAmount = "1500000" /\ log[i].q.priceImpactPct = "n/a"
    /\ res.err.kind = "ParseFloatError"

C10_LegacyFirst ==
    (Done("submit_signed_transaction") /\ args.signed_tx.enc = "base64") =>
        LET w == args.signed_tx IN
        /\ loc.tried # <<>> /\ loc.tried[1] = "Transaction"
        /\ Len(loc.tried) = 2 =>
              loc.tried[2] = "VersionedTransaction" /\ ~w.legacy
        /\ w.legacy => /\ Len(loc.tried) = 1
                       /\ \A i \in Calls("send_and_confirm") : log[i].a = "Transaction"
        /\ (~w.legacy /\ ~w.versioned) =>
              /\ res.status = "Err"
              /\ res.err.kind = "TransactionFailed"
              /\ res.err.reason = "Invalid transaction format"
              /\ Calls("send_and_confirm") = {}
        /\ (w.legacy \/ w.versioned) => Cardinality(Calls("send_and_confirm")) = 1

C10_Witness ==
    /\ Done("submit_signed_transaction")
    /\ args.signed_tx.enc = "base64"
    /\ ~args.signed_tx.legacy /\ ~args.signed_tx.versioned
    /\ loc.tried = <<"Transaction", "VersionedTransaction">>
    /\ res.err.reason = "Invalid transaction format"

\* C11: the required-signer list prepare_swap returns is the first
\* min(N, |K|) account keys of the decoded transaction, in order, for the
\* Legacy and for the V0 message shape.
C11_SignerPrefix ==
    (Done("prepare_swap_transaction") /\ res.status = "Ok") =>
        LET K == res.pkg.wire.tx.keys
            N == res.pkg.wire.tx.nsig
        IN  /\ res.pkg.wire.tx.shape \in {"Legacy", "V0"}
            /\ Len(res.pkg.signers) = Min(N, Len(K))
            /\ \A i \in 1..Min(N, Len(K)) : res.pkg.signers[i] = K[i]

C11_Witness ==
    /\ Done("prepare_swap_transaction")
    /\ res.status = "Ok"
    /\ res.pkg.wire.tx.shape = "V0"
    /\ res.pkg.wire.tx.nsig = 2
    /\ res.pkg.signers = <<args.payer, "K3">>

C11_WitnessLegacy ==
    /\ Done("prepare_swap_transaction")
    /\ res.status = "Ok"
    /\ res.pkg.wire.tx.shape = "Legacy"
    /\ res.pkg.wire.tx.nsig > 1

SubmitOps == {"submit_signed_transaction", "send_transaction"}

\* C12: one call of submit_signed_transaction or send_transaction issues at
\* most one send-and-confirm request; a signature (or success) is returned
\* only after the node confirmed that request; when the request fails or
\* times out the call returns a failure and sends nothing again.
C12_SingleSend ==
    op \in SubmitOps =>
        /\ Cardinality(Calls("send_and_confirm")) <= 1
        /\ (pc = "done" /\ res.status = "Ok") =>
              \E i \in Calls("send_and_confirm") :
                 /\ log[i].ok
                 /\ op = "submit_signed_transaction" => res.pkg.signature = log[i].text
        /\ \A i \in Calls("send_and_confirm") :
              ~log[i].ok => /\ pc = "done"
                            /\ res.status = "Err"
                            /\ i = Len(log)

C12_Witness ==
    /\ Done("submit_signed_transaction")
    /\ res.status = "Err"
    /\ \E i \in Calls("send_and_confirm") : ~log[i].ok /\ log[i].text = "timeout"

C12_WitnessSendTransaction ==
    /\ Done("send_transaction")
    /\ res.status = "Ok"
    /\ \E i \in Calls("send_and_confirm") : log[i].ok

TransferBuildOps ==
    {"create_transaction", "create_transaction_with_keypair", "prepare_sol_transfer"}

\* C13: every signed or unsigned transfer build that returns a package
\* asked the node for the latest blockhash during the call, after the
\* balance check, and the package embeds exactly that blockhash; for the
\* unsigned build the blockhash reported next to the transaction is the
\* embedded one.
C13_FreshBlockhash ==
    (op \in TransferBuildOps /\ pc = "done" /\ res.status = "Ok") =>
        /\ Cardinality(Calls("get_latest_blockhash")) = 1
        /\ \E h \in Calls("get_latest_blockhash") :
              /\ log[h].ok
              /\ \E b \in Calls("get_balance") : b < h /\ log[b].ok
              /\ res.pkg.wire.tx.blockhash = log[h].n
        /\ op = "prepare_sol_transfer" =>
              res.pkg.blockhash = res.pkg.wire.tx.blockhash

C13_Witness ==
    /\ Done("create_transaction_with_keypair")
    /\ res.status = "Ok"
    /\ res.pkg.wire.tx.blockhash = MaxHash

C13_WitnessUnsigned ==
    /\ Done("prepare_sol_transfer")
    /\ res.status = "Ok"
    /\ res.pkg.blockhash = MaxHash

\* C14: the blockhash reported in the package of prepare_swap is the
\* blockhash embedded in the wire transaction of that package (stated for
\* the aggregator answering as requested).
C14_ReportedIsEmbedded ==
    (Done("prepare_swap_transaction") /\ res.status = "Ok"
        /\ AnsweredAsRequested(res.pkg.wire, args.payer)) =>
        res.pkg.blockhash = res.pkg.wire.tx.blockhash

\* C15: the route hop count of the quote summary of prepare_swap is the
\* number of route hops of the quote received, and its expected output and
\* price impact are the values of that quote (stated for the aggregator
\* answering as requested).
C15_QuoteSummary ==
    (Done("prepare_swap_transaction") /\ res.status = "Ok"
        /\ AnsweredAsRequested(res.pkg.wire, args.payer)) =>
        \E i \in Calls("quote") :
            /\ log[i].ok
            /\ res.pkg.quote_info.route_steps = log[i].q.routePlan
            /\ res.pkg.quote_info.expected_output = ParseU64(log[i].q.outAmount).val
            /\ res.pkg.quote_info.price_impact = ParseF64(log[i].q.priceImpactPct).val

\* C16: fetch_history passes min(requested limit, 1000) to the node, 50
\* standing for a missing limit, asks once, and never returns more records
\* than the limit it passed.
C16_LimitCapped ==
    op \in HistoryOps =>
        /\ Cardinality(Calls("get_signatures")) <= 1
        /\ \A i \in Calls("get_signatures") :
              /\ log[i].n = Min(IF args.limit = NoLimit THEN 50 ELSE args.limit, 1000)
              /\ Total(loc.transactions) <= log[i].n
              /\ (pc = "done" /\ res.status = "Ok") => Total(res.pkg.records) <= log[i].n

C16_Witness ==
    /\ Done("fetch_transaction_history")
    /\ res.status = "Ok"
    /\ args.limit = HistoryCap + 1
    /\ Total(args.index) > HistoryCap + 1
    /\ Total(res.pkg.records) = HistoryCap

\* C17: a successful fetch_history returns exactly one record per entry of
\* the node's signature answer, in the same order, and record i carries the
\* signature, the slot and the block time of entry i, whatever the detail
\* fetches answered.
C17_OneRecordPerSignature ==
    (op \in HistoryOps /\ pc = "done" /\ res.status = "Ok") =>
        \E i \in Calls("get_signatures") :
            /\ log[i].ok
            /\ Len(res.pkg.records) = Len(log[i].page)
            /\ \A k \in 1..Len(log[i].page) :
                  /\ res.pkg.records[k].signature = log[i].page[k].first
                  /\ res.pkg.records[k].count = log[i].page[k].count
                  /\ res.pkg.records[k].slot = log[i].page[k].slot
                  /\ res.pkg.records[k].block_time = log[i].page[k].block_time

C17_Witness ==
    /\ Done("fetch_transaction_history")
    /\ res.status = "Ok"
    /\ Len(res.pkg.records) = 2
    /\ Total(res.pkg.records) = HistoryCap
    /\ res.pkg.records[1].block_time # res.pkg.records[2].block_time
    /\ \E i \in Calls("get_transaction") : ~log[i].ok
    /\ \E i \in Calls("get_transaction") : log[i].ok

\* C18: a signature whose detail fetch fails still gets its record, of kind
\* Unknown with amount and symbol absent; the other signatures get theirs;
\* once the node answered the signature request, fetch_history succeeds
\* whatever the detail fetches answer.
C18_DetailFailureTolerated ==
    op \in HistoryOps =>
        /\ \A i \in Calls("get_transaction") :
              ~log[i].ok =>
                 \E k \in 1..Len(loc.transactions) :
                    /\ loc.transactions[k].signature = log[i].n
                    /\ loc.transactions[k].transaction_type = "Unknown"
                    /\ loc.transactions[k].amount = -1
                    /\ loc.transactions[k].token_symbol = "None"
        /\ \A i \in Calls("get_signatures") :
              (pc = "done" /\ log[i].ok) =>
                 /\ res.status = "Ok"
                 /\ res.pkg.records = loc.transactions
                 /\ Len(res.pkg.records) = Len(log[i].page)

C18_Witness ==
    /\ Done("fetch_transaction_history")
    /\ res.status = "Ok"
    /\ Len(res.pkg.records) = 2
    /\ \E i \in Calls("get_transaction") : ~log[i].ok /\ log[i].n = 1
    /\ res.pkg.records[1].transaction_type = "Unknown"
    /\ res.pkg.records[2].transaction_type = "Transfer"

\* C19: a history request with limit L over a wallet holding more than L
\* signatures is answered with exactly L records, newest first, and a
\* non-null next_before equal to the signature of the last record.
C19_FullPageHasCursor ==
    (Done("get_transaction_history_web") /\ res.status = "Ok"
        /\ args.limit # NoLimit /\ args.before = NoSignature
        /\ Total(AtCommitment(args.index, "confirmed")) > args.limit) =>
        LET records == res.pkg.records IN
        /\ Total(records) = args.limit
        /\ \A k \in 1..(Len(records) - 1) :
              records[k].signature + records[k].count <= records[k + 1].signature
        /\ res.pkg.next_before # NoSignature
        /\ res.pkg.next_before = LastSignature(records)

\* C20: every record of fetch_pending is for a signature the node reports
\* as Processed and carries outcome Pending and depth Processed, and every
\* signature the node holds as Processed among its 20 newest is returned.
C20_PendingOnlyAndAll ==
    (Done("fetch_pending_transactions") /\ res.status = "Ok") =>
        LET records == res.pkg.records
            newest == TakeRuns(args.index, 20)
        IN
        /\ \A k \in 1..Len(records) :
              /\ records[k].status = "Pending"
              /\ records[k].confirmation_status = "Processed"
              /\ \E j \in 1..Len(newest) :
                    /\ newest[j].first = records[k].signature
                    /\ newest[j].confirmation_status = "Processed"
        /\ \A j \in 1..Len(newest) :
              newest[j].confirmation_status = "Processed" =>
                 \E k \in 1..Len(records) :
                    /\ records[k].signature = newest[j].first
                    /\ records[k].count = newest[j].count

\* C21: a record whose detail was fetched is a Transfer exactly when some
\* account's native balance differs between pre and post by more than
\* 1,000,000 base units, with the amount of such an account's absolute
\* difference in human units and the native symbol; with no such account
\* (a difference of exactly 1,000,000 included) or without balance
\* metadata it is Unknown with amount and symbol absent.
C21_TransferThreshold ==
    op \in HistoryOps =>
        \A i \in Calls("get_transaction") :
            log[i].ok =>
                LET d == log[i].detail
                    n == IF Len(d.pre) < Len(d.post) THEN Len(d.pre) ELSE Len(d.post)
                    over == {j \in 1..n : d.post[j] - d.pre[j] > 1000000
                                          \/ d.pre[j] - d.post[j] > 1000000}
                IN  \E k \in 1..Len(loc.transactions) :
                       LET r == loc.transactions[k] IN
                       /\ r.signature = log[i].n
                       /\ IF d.meta /\ over # {}
                          THEN /\ r.transaction_type = "Transfer"
                               /\ r.token_symbol = "SOL"
                               /\ \E j \in over :
                                     r.amount \in {(d.post[j] - d.pre[j]) * Sub,
                                                   (d.pre[j] - d.post[j]) * Sub}
                          ELSE /\ r.transaction_type = "Unknown"
                               /\ r.token_symbol = "None"
                               /\ r.amount = -1

C21_Witness ==
    /\ Done("fetch_transaction_history")
    /\ res.status = "Ok"
    /\ Len(res.pkg.records) = 2
    /\ res.pkg.records[1].transaction_type = "Transfer"
    /\ res.pkg.records[1].amount = 2005001 * Sub
    /\ res.pkg.records[2].transaction_type = "Unknown"
    /\ \E i \in Calls("get_transaction") :
          /\ log[i].n = 2
          /\ log[i].detail.meta
          /\ log[i].detail.pre = <<2000000>>
          /\ log[i].detail.post = <<1000000>>

\* C22: every transaction that is a token transfer or a swap is reported
\* by fetch_history and fetch_pending with kind Unknown, and no record ever
\* carries kind TokenTransfer or Swap.
C22_TokenAndSwapUnknown ==
    op \in HistoryOps \cup {"fetch_pending_transactions"} =>
        /\ \A k \in 1..Len(loc.transactions) :
              loc.transactions[k].transaction_type \notin {"TokenTransfer", "Swap"}
        /\ \A i \in Calls("get_transaction") :
              log[i].detail.what \in {"token_transfer", "swap"} =>
                 \E k \in 1..Len(loc.transactions) :
                    /\ loc.transactions[k].signature = log[i].n
                    /\ loc.transactions[k].transaction_type = "Unknown"

\* what C23 requires of the resolution of symbol s: mint m was recorded, or
\* the call ended with the unknown-asset failure naming s (reported by the
\* code as InvalidAddress{"Unknown token: s"}) before any remote call
Resolved(s, m) ==
    IF s \in {"SOL", "sol"} THEN m = "So11"
    ELSE IF s = "USDC" THEN m = UsdcMint
    ELSE IF s \in {WalletKey, "K2", "K3", SystemProgram, "So11", UsdcMint, OtherMint}
    THEN m = s
    ELSE /\ pc = "done"
         /\ res.status = "Err"
         /\ res.err.kind = "InvalidAddress"
         /\ res.err.reason = "Unknown token"
         /\ res.err.detail = s
         /\ log = <<>>

\* C23: get_token_mint returns the configured address for a known symbol,
\* returns a well-formed address unchanged, fails with the unknown-asset
\* error for any other input, and makes no remote call (checked where
\* prepare_swap applies it to its two symbols).
C23_Resolve ==
    (op = "prepare_swap_transaction" /\ pc # "get_token_mint") =>
        /\ Resolved(args.from_symbol, loc.input_mint)
        /\ loc.input_mint # "" => Resolved(args.to_symbol, loc.output_mint)
        /\ pc = "get_quote" => log = <<>>

C23_Witness ==
    /\ At("prepare_swap_transaction", "get_quote")
    /\ args.from_symbol = "sol"
    /\ args.to_symbol = OtherMint
    /\ loc.input_mint = SolMint
    /\ loc.output_mint = OtherMint

C23_WitnessUnknown ==
    /\ Done("prepare_swap_transaction")
    /\ args.from_symbol = "bad!"
    /\ res.err.reason = "Unknown token"

\* C24: for every non-negative amount a and precision d the builders use,
\* the base units computed satisfy to_base_units(a, d) <= a * 10^d: the
\* conversion never rounds up.  With a = m / 2^k: units * 2^k <= m * 10^d.
C24_NeverRoundsUp ==
    pc = "done" =>
        ~BigLess(BigShiftLeft(BigMulFactors(loc.m, PowerFactors(args.decimals)), 0 - loc.k),
                 BigShiftLeft(res, loc.k))

\* C25: n base units converted to a human amount as the balance query does
\* and back to base units as the builders do are n again.
C25_RoundTrip ==
    (pc = "done" /\ args.from = "base_units") => res = BigFromInt(args.units)

\* C26: in the swap entry points the precision that scales the input
\* amount and the output amount is 9 when the asset resolved to the native
\* coin's address, by symbol in any case or by the raw address, and 6 for
\* any other asset.
C26_DecimalsByMint ==
    (op \in SwapOps /\ loc.input_mint # "" /\ loc.output_mint # "") =>
        LET din == IF loc.input_mint = "So11" THEN 9 ELSE 6
            dout == IF loc.output_mint = "So11" THEN 9 ELSE 6
            scale == IF din = 9 THEN 1 ELSE 1000
        IN  /\ loc.amount_units =
                  IF args.amount < 0 THEN 0 ELSE args.amount \div (Sub * scale)
            /\ loc.out_decimals # 0 => loc.out_decimals = dout

(***************************************************************************)
(* C27: the error kinds of swap, prepare_swap and submit                   *)
(***************************************************************************)
SwapOrSubmit == SwapOps \cup {"submit_signed_transaction"}

FailedCall == op \in SwapOrSubmit /\ pc = "done" /\ res.status = "Err"

LastEntry == log[Len(log)]

\* the kind a simulation rejection of the aggregator is reported with
SimulationKind ==
    GetSwapTransaction([http |-> "ok", w |-> NoWire,
                        simulation_error |-> "custom program error"]).err.kind

\* the failure is the aggregator's simulation rejection
SimulationRejected ==
    /\ FailedCall /\ Len(log) > 0
    /\ LastEntry.call = "swap_build" /\ LastEntry.text = "ok"
    /\ LastEntry.sim # "None"

\* the failure is the node's rejection of the sent transaction
NodeRejected ==
    /\ FailedCall /\ Len(log) > 0
    /\ LastEntry.call = "send_and_confirm" /\ ~LastEntry.ok
    /\ LastEntry.text = "rejected"

\* the failure is an undecodable payload handed to submit
MalformedSubmitted ==
    /\ FailedCall /\ op = "submit_signed_transaction" /\ Len(log) = 0

\* the failure is a transport failure towards the aggregator
TransportFailed ==
    /\ FailedCall /\ Len(log) > 0
    /\ LastEntry.call \in {"quote", "swap_build"}
    /\ LastEntry.text = "transport"

\* C27: a failure of swap, prepare_swap or submit tells its cause by its
\* error kind: a rejection by the node, an undecodable payload and a
\* transport failure are never reported with the kind that a simulation
\* rejection is reported with, nor a transport failure with the kind of an
\* undecodable payload or of a node rejection, and the error carries the
\* remote party's reason text.
C27_DistinctKinds ==
    /\ SimulationRejected =>
         res.err.kind = SimulationKind /\ res.err.detail = LastEntry.sim
    /\ NodeRejected =>
         res.err.kind # SimulationKind /\ res.err.detail = LastEntry.text
    /\ MalformedSubmitted => res.err.kind # SimulationKind
    /\ TransportFailed =>
         res.err.kind \notin {SimulationKind, "ClientError", "DecodeError"}

(***************************************************************************)
(* C28: send_transaction and the balance query after the send              *)
(***************************************************************************)
\* C28: whenever send_transaction returns an error the node has not accepted
\* the transaction: once send_and_confirm_transaction has succeeded the call
\* returns Ok, whatever the balance query that follows answers.
C28_ErrorMeansNotSent ==
    (op = "send_transaction" /\ pc = "done" /\ res.status = "Err") =>
        \A i \in Calls("send_and_confirm") : ~log[i].ok

(***************************************************************************)
(* web.rs: get_transaction_history_web called page after page.  A client   *)
(* asks with a fixed limit and no `before`, then passes each response's    *)
(* next_before as the next `before`, and stops when has_more is false or   *)
(* next_before is null.  The index of the wallet does not change.          *)
(* args holds the request, loc the signatures received so far as ranges,   *)
(* res the paging fields of the last response.                             *)
(***************************************************************************)
NoPaging == [has_more |-> FALSE, next_before |-> NoSignature, total_count |-> 0]

\* ranges [first, count] of signature numbers, adjacent ranges joined
AppendRange(ranges, first, count) ==
    IF count = 0 THEN ranges
    ELSE IF ranges # <<>>
            /\ ranges[Len(ranges)].first + ranges[Len(ranges)].count = first
    THEN [ranges EXCEPT ![Len(ranges)].count = @ + count]
    ELSE Append(ranges, [first |-> first, count |-> count])

RECURSIVE RangesOfRuns(_, _)
RangesOfRuns(ranges, runs) ==
    IF runs = <<>> THEN ranges
    ELSE RangesOfRuns(AppendRange(ranges, Head(runs).first, Head(runs).count), Tail(runs))

RECURSIVE RangesOfRecords(_, _)
RangesOfRecords(ranges, records) ==
    IF records = <<>> THEN ranges
    ELSE RangesOfRecords(AppendRange(ranges, Head(records).signature, Head(records).count),
                         Tail(records))

PageInit ==
    /\ op = "get_transaction_history_web"
    /\ pc = "request"
    /\ \E l \in Limits, x \in Indexes :
         args = [NoArgs EXCEPT !.payer = "K2", !.limit = l, !.before = NoSignature,
                               !.index = x]
    /\ loc = <<>>
    /\ log = <<>>
    /\ res = NoPaging

\* one request to the endpoint and the client's reaction to the response
PageRequest ==
    /\ pc = "request"
    /\ PubkeyFromStrOk(args.payer)
    /\ LET limit == EffectiveLimit(args.limit)
           before == ParseBefore(args.before)
           signatures == NodeSignatures(args.index, limit, before, "confirmed")
       IN  \/ \* the node's answer is an error: ApiResponse { success: false }
              /\ pc' = "failed"
              /\ UNCHANGED <<args, loc, res>>
           \/ \E details \in [1..Len(signatures) -> DetailAnswers] :
                LET transactions ==
                        [i \in 1..Len(signatures) |->
                            HistoryRecord(signatures[i], DetailOrUnknown(details[i]))]
                    data == WebHistoryResponse(transactions, args.limit)
                    stop == ~data.has_more \/ data.next_before = NoSignature
                IN  /\ loc' = RangesOfRecords(loc, data.records)
                    /\ res' = [has_more |-> data.has_more,
                               next_before |-> data.next_before,
                               total_count |-> data.total_count]
                    /\ pc' = IF stop THEN "stopped" ELSE "request"
                    /\ args' = IF stop THEN args
                               ELSE [args EXCEPT !.before = data.next_before]
    /\ UNCHANGED <<op, log>>

PageNext == PageRequest

\* the client goes on calling until it stops
PageSpec == PageInit /\ [][PageNext]_vars /\ WF_vars(PageRequest)

\* the signatures of the wallet that the node serves at the handler's commitment
PageIndex == RangesOfRuns(<<>>, AtCommitment(args.index, "confirmed"))

PageStopped == pc = "stopped"

\* C29: against an unchanging index the paging client, whatever its fixed
\* limit, stops after finitely many requests, and when it has stopped it
\* has received every signature of the wallet exactly once, newest first
\* (has_more is false only when no older signature remains).
C29_PagingCompletes ==
    /\ [](PageStopped => loc = PageIndex)
    /\ <>(pc \in {"stopped", "failed"})

\* C30: every record of fetch_transaction_history has outcome Success
\* exactly when the node reported no error for its signature and Failed
\* otherwise, never Pending; its error description is present exactly when
\* the outcome is Failed; its confirmation depth is the one the node
\* reported, or Finalized when the node reported none.
C30_OutcomeAndDepth ==
    op \in HistoryOps =>
        \A i \in Calls("get_signatures") :
            \A k \in 1..Len(loc.transactions) :
                LET sig_info == log[i].page[k]
                    record == loc.transactions[k]
                IN  /\ (record.status = "Success") <=> (sig_info.err = "None")
                    /\ (record.status = "Failed") <=> (sig_info.err # "None")
                    /\ record.status # "Pending"
                    /\ (record.error # "None") <=> (record.status = "Failed")
                    /\ record.error = sig_info.err
                    /\ record.confirmation_status =
                          IF sig_info.confirmation_status = "None" THEN "Finalized"
                          ELSE sig_info.confirmation_status
                    /\ (pc = "done" /\ res.status = "Ok") => res.pkg.records[k] = record

C30_Witness ==
    /\ Done("fetch_transaction_history")
    /\ res.status = "Ok"
    /\ Len(res.pkg.records) = 2
    /\ \E i \in Calls("get_signatures") :
          /\ log[i].page[1].err # "None"
          /\ log[i].page[2].confirmation_status = "None"
    /\ res.pkg.records[1].status = "Failed"
    /\ res.pkg.records[1].confirmation_status = "Confirmed"
    /\ res.pkg.records[2].status = "Success"
    /\ res.pkg.records[2].confirmation_status = "Finalized"

Next ==
    \/ CallCreateTransaction
    \/ CT_LoadKeypair
    \/ CT_BalanceKeypair
    \/ CT_GetBalance
    \/ CT_Blockhash
    \/ CallCreateTransactionWithKeypair
    \/ CTK_Keypair
    \/ CTK_GetBalance
    \/ CTK_Blockhash
    \/ CallPrepareSolTransfer
    \/ PST_Parse
    \/ PST_GetBalance
    \/ PST_Blockhash
    \/ CallPrepareSwapTransaction
    \/ PS_Mints
    \/ PS_Quote
    \/ PS_Build
    \/ PS_Blockhash
    \/ CallSwapTokens
    \/ ST_Start
    \/ ST_Quote
    \/ ST_Build
    \/ ST_Send
    \/ CallSwapTokensWithKeypair
    \/ SWK_Start
    \/ SWK_Quote
    \/ SWK_Build
    \/ SWK_Send
    \/ CallSubmitSignedTransaction
    \/ SS_Decode
    \/ SS_Send
    \/ CallSendTransaction
    \/ SND_Decode
    \/ SND_Send
    \/ SND_BalanceKeypair
    \/ SND_GetBalance
    \/ CallFetchTransactionHistory
    \/ FH_Signatures
    \/ FH_Detail
    \/ CallGetTransactionHistoryWeb
    \/ HW_ParsePublicKey
    \/ HW_Signatures
    \/ HW_Detail
    \/ CallFetchPendingTransactions
    \/ FP_Signatures
    \/ FP_Loop
    \/ Finish

Spec == Init /\ [][Next]_vars

====
